---- MODULE Spec2Model ----
(***************************************************************************)
(* Verification model of the rxing barcode library:                        *)
(*   - the multi-format dispatchers MultiFormatReader and                  *)
(*     MultiUseMultiFormatReader (src/src/multi_format_reader.rs,          *)
(*     src/src/multi_use_multi_format_reader.rs);                          *)
(*   - the packed bit matrix BitMatrix (src/src/common/bit_matrix.rs);     *)
(*   - the bit reader BitSource and its inverse BitSourceBuilder           *)
(*     (src/src/common/bit_source.rs, bit_source_builder.rs);              *)
(*   - the point mapping of PerspectiveTransform                           *)
(*     (src/crates/common/src/perspective_transform.rs);                   *)
(*   - DefaultGridSampler::sample_grid                                     *)
(*     (src/src/common/default_grid_sampler.rs);                           *)
(*   - AztecReader (src/src/aztec/aztec_reader.rs);                        *)
(*   - the QR bit-stream decoder                                           *)
(*     (src/src/qrcode/decoder/decoded_bit_stream_parser.rs);              *)
(*   - RSS14Reader (src/src/oned/rss/rss_14_reader.rs);                    *)
(*   - ByQuadrantReader (src/src/multi/by_quadrant_reader.rs);             *)
(*   - std::io::Read for BitSource (src/src/common/bit_source.rs);         *)
(*   - decodeAlphanumericSegment on its own, BitMatrix::crop and           *)
(*     MaxiCodeReader::extractPureBits                                     *)
(*     (src/src/maxicode/maxi_code_reader.rs);                             *)
(*   - Luma8LuminanceSource (src/src/luma_luma_source.rs);                 *)
(*   - helpers::detect_in_luma and its variants (src/src/helpers.rs);      *)
(*   - parseFieldsInGeneralPurpose                                         *)
(*     (src/src/oned/rss/expanded/decoders/field_parser.rs);               *)
(*   - VINResultParser (src/src/client/result/VINResultParser.rs).         *)
(***************************************************************************)
EXTENDS Integers, Sequences, FiniteSets, TLC

VARIABLES
    kind,             \* which dispatcher class the program instantiated
    h,                \* the hints object the caller holds
    image,            \* the caller's BinaryBitmap: what each reader finds in it
    flipped,          \* TRUE when the bitmap's black matrix is the inverse of the binarized source
    mfr_hints,        \* MultiFormatReader.hints
    mfr_readers,      \* MultiFormatReader.readers
    mu_hints,         \* MultiUseMultiFormatReader.hints
    possible_formats, \* MultiUseMultiFormatReader.possible_formats (set in iteration order)
    try_harder,       \* MultiUseMultiFormatReader.try_harder
    supplied,         \* the hints most recently handed to the reader by the caller
    call,             \* the most recent call on the reader: operation, reader attempts, outcome
    bm,               \* a BitMatrix
    bm_res,           \* outcome of the most recent BitMatrix operation: new, Ok, rotated (Ok of rotate), Err
    bs,               \* a BitSource: bytes, byte_offset, bit_offset
    bs_res,           \* the most recent readBits or peak_bits call: argument and outcome
    bs_unwritten,     \* the value read and not yet written to the builder, if any
    bsb,              \* a BitSourceBuilder: output, nextByte, bitsLeftInNextByte
    bsb_out,          \* the vector returned by toByteArray, once it was called
    pt,               \* a PerspectiveTransform: a11 .. a33
    pt_input,         \* the points handed to the transform, as the caller made them
    pt_points,        \* the caller's interleaved slice [x0, y0, x1, y1, ...]
    pt_x_values,      \* the caller's slice of x values
    pt_y_values,      \* the caller's slice of y values
    pt_calls,         \* how often each entry point was called on its slices
    pt_panic,         \* TRUE once a call panicked
    gs_image,         \* the binarized image handed to the grid sampler
    gs_res,           \* the most recent sample_grid call: arguments and outcome
    az_image,         \* the image handed to the Aztec reader: what its detector and decoder return on it
    az_res,           \* the most recent AztecReader call: detector and decoder calls made, outcome
    qr_input,         \* the arguments of the QR bit-stream decoder: codewords, version, whether segment text decodes
    qr_res,           \* the most recent decode call of the QR bit-stream decoder: outcome, modes read, field cut short
    rss,              \* an RSS14Reader: possibleLeftPairs, possibleRightPairs
    rss_res,          \* the most recent call on the RSS14Reader: image, hints, outcome
    rss_rows,         \* the rows handed to decodeRow since the RSS14Reader was made or reset
    rss_calls,        \* number of decode calls made on the RSS14Reader
    bq_image,         \* the image handed to the ByQuadrantReader: size and the delegate's answers
    bq_res,           \* the most recent call on the ByQuadrantReader: crops tried and outcome
    rd,               \* a BitSource read through std::io::Read
    rd_res,           \* the most recent call on that source: the source before a read, buffer length, outcome
    an_input,         \* an alphanumeric segment: text of the earlier segments, characters, fc1InEffect
    an_res,           \* the most recent decodeAlphanumericSegment call: error kind and text
    cr_input,         \* a BitMatrix and a region inside it: top, left, height, width
    cr_res,           \* the most recent crop call: panic or the matrix returned
    mx_input,         \* a pure MaxiCode image: the rectangle of its dark pixels, all dark or corners only
    mx_res,           \* the most recent extractPureBits call: coordinates sampled and bits read
    lu,               \* the Luma8LuminanceSource view
    lu_res,           \* the last accessor call on a view and what it returned
    hl_input,         \* the arguments of a helpers::detect_in_luma call
    hl_res,           \* the decode_with_hints call the last helper ended in
    fp_input,         \* the GS1 fields whose concatenation is parsed
    fp_res,           \* the last parseFieldsInGeneralPurpose call and what it returned
    vin_input,        \* the RXingResult handed to VINResultParser::parse: format and text
    vin_res           \* the last VINResultParser::parse call and what it returned

dispatch_vars == <<kind, h, image, flipped, mfr_hints, mfr_readers, mu_hints,
                   possible_formats, try_harder, supplied, call>>
bm_vars == <<bm, bm_res>>
bs_vars == <<bs, bs_res, bs_unwritten, bsb, bsb_out>>
pt_vars == <<pt, pt_input, pt_points, pt_x_values, pt_y_values, pt_calls, pt_panic>>
gs_vars == <<gs_image, gs_res>>
az_vars == <<az_image, az_res>>
qr_vars == <<qr_input, qr_res>>
rss_vars == <<rss, rss_res, rss_rows, rss_calls>>
bq_vars == <<bq_image, bq_res>>
rd_vars == <<rd, rd_res>>
an_vars == <<an_input, an_res>>
cr_vars == <<cr_input, cr_res>>
mx_vars == <<mx_input, mx_res>>
lu_vars == <<lu, lu_res>>
hl_vars == <<hl_input, hl_res>>
fp_vars == <<fp_input, fp_res>>
vin_vars == <<vin_input, vin_res>>
vars == <<dispatch_vars, bm_vars, bs_vars, pt_vars, gs_vars, az_vars, qr_vars, rss_vars, bq_vars, rd_vars, an_vars, cr_vars, mx_vars, lu_vars, hl_vars, fp_vars, vin_vars>>

----------------------------------------------------------------------------
(* Bounds *)

\* longest PossibleFormats set a caller supplies
MaxFormats == 2
\* most (reader, polarity) pairs that can decode one image
MaxSymbols == 2
\* side of the small matrices (next to 1 and to the dimension that crosses a word)
MaxDim == 2
\* longest byte slice under a BitSource
MaxBytes == 5
\* most points in one transform call, their largest coordinate, most calls per entry point
MaxPoints == 2
MaxCoord == 1
MaxTransformCalls == 1
\* largest output grid dimension of a sample_grid call
MaxGrid == 2
\* most codewords in a stream handed to the QR bit-stream decoder
MaxCodewords == 2
\* most rows scanned in an image handed to the RSS14Reader
MaxRows == 2
\* most decode calls made on one RSS14Reader
MaxDecodeCalls == 2
\* largest width and height of an image handed to the ByQuadrantReader
MaxSide == 4
\* longest buffer handed to std::io::Read::read of a BitSource
MaxBuf == 2
\* most characters in an alphanumeric segment decoded on its own
MaxChars == 5
\* largest width and height of a matrix handed to BitMatrix::crop
MaxCropDim == 2
\* most white columns left of, and white rows above, the dark pixels of a MaxiCode image
MaxMargin == 2
\* largest width and height of the rectangle of dark pixels of a MaxiCode image
MaxExtent == 2
\* largest width and height of the data under a Luma8LuminanceSource
MaxLumaDim == 2
\* most GS1 fields in a string handed to parseFieldsInGeneralPurpose
MaxFields == 2
\* most edits between a VIN and the text handed to VINResultParser::parse
MaxEdits == 1

----------------------------------------------------------------------------
(* Helpers *)

Min(S) == CHOOSE x \in S : \A y \in S : x <= y
Max(S) == CHOOSE x \in S : \A y \in S : x >= y
Range(s) == {s[i] : i \in 1..Len(s)}
IsInjective(s) == \A i, j \in 1..Len(s) : i # j => s[i] # s[j]
SeqsUpTo(S, n) == UNION {[1..k -> S] : k \in 0..n}

----------------------------------------------------------------------------
(* Dispatch: formats, hints, images *)

\* formats answered by the one-dimensional reader of MultiUseMultiFormatReader
ONE_D_FORMATS == {"UPC_A", "UPC_E", "EAN_13", "EAN_8", "CODABAR", "CODE_39", "CODE_93",
                  "CODE_128", "ITF", "RSS_14", "RSS_EXPANDED", "TELEPEN"}

\* formats for which MultiFormatReader::set_ints adds the one-dimensional reader
MFR_ONE_D_FORMATS == {"UPC_A", "UPC_E", "EAN_13", "EAN_8", "CODABAR", "CODE_39", "CODE_93",
                      "CODE_128", "ITF", "RSS_14", "RSS_EXPANDED"}

\* the formats callers put in PossibleFormats in this model
InputFormats == {"CODE_39", "QR_CODE", "DATA_MATRIX", "MAXICODE", "UPC_EAN_EXTENSION"}

Readers == {"ONE_D", "CPP_QR", "QR", "DM", "AZTEC", "PDF417", "MAXICODE"}
TwoDReaders == Readers \ {"ONE_D"}

Opt3 == {"absent", "false", "true"}

\* HashMap::new() / DecodeHints::default()
DefaultHints == [TryHarder |-> "absent", AlsoInverted |-> "absent",
                 hasFormats |-> FALSE, formats |-> <<>>]

\* a PossibleFormats value is a set; the sequence is the order in which the
\* HashSet instance iterates (fixed for one instance, kept by clone)
FormatSets == {s \in SeqsUpTo(InputFormats, MaxFormats) : IsInjective(s)}

Hints == {[TryHarder |-> t, AlsoInverted |-> a, hasFormats |-> FALSE, formats |-> <<>>] :
              t \in Opt3, a \in Opt3}
         \cup
         {[TryHarder |-> t, AlsoInverted |-> a, hasFormats |-> TRUE, formats |-> f] :
              t \in Opt3, a \in Opt3, f \in FormatSets}

\* the readers that find a symbol in some image of this model
SymbolReaders == {"ONE_D", "CPP_QR", "QR", "MAXICODE"}
Symbols == SymbolReaders \X BOOLEAN
ErrKinds == {"NotFound", "Format", "Checksum"}

\* an image: the (reader, polarity) pairs that decode it, and the error kind
\* with which the other attempts fail
Images == {[syms |-> s, failKind |-> k] :
              s \in {t \in SUBSET Symbols : Cardinality(t) <= MaxSymbols}, k \in ErrKinds}

NoResult == [ok |-> FALSE, err |-> "", reader |-> "", pass |-> 0, isInverted |-> FALSE]

NoCall == [op |-> "new", trace |-> <<>>, result |-> NoResult]

----------------------------------------------------------------------------
(* One pass over a sequence of readers: each reader's decode_with_hints     *)
(* is called in turn, the pass stops at the first Ok.                       *)

PassTrace(rs, img, inv, pass) ==
    LET okIdx == {i \in 1..Len(rs) : <<rs[i], inv>> \in img.syms}
        n == IF okIdx = {} THEN Len(rs) ELSE Min(okIdx)
    IN [i \in 1..n |-> [reader |-> rs[i], pass |-> pass, inv |-> inv,
                        ok |-> i \in okIdx,
                        err |-> IF i \in okIdx THEN "" ELSE img.failKind]]

PassOk(t) == Len(t) > 0 /\ t[Len(t)].ok

OkResult(t, tag) == [ok |-> TRUE, err |-> "", reader |-> t[Len(t)].reader,
                     pass |-> t[Len(t)].pass, isInverted |-> tag]

ErrResult(k) == [ok |-> FALSE, err |-> k, reader |-> "", pass |-> 0, isInverted |-> FALSE]

----------------------------------------------------------------------------
(* MultiFormatReader *)

MFR_set_ints_readers(hints) ==
    LET tryHarder == hints.TryHarder # "absent"
        formats == Range(hints.formats)
        addOneDReader == formats \cap MFR_ONE_D_FORMATS # {}
        fromFormats ==
            IF hints.hasFormats
            THEN (IF addOneDReader /\ ~tryHarder THEN <<"ONE_D">> ELSE <<>>)
                 \o (IF "QR_CODE" \in formats THEN <<"QR">> ELSE <<>>)
                 \o (IF "DATA_MATRIX" \in formats THEN <<"DM">> ELSE <<>>)
                 \o (IF "AZTEC" \in formats THEN <<"AZTEC">> ELSE <<>>)
                 \o (IF "PDF_417" \in formats THEN <<"PDF417">> ELSE <<>>)
                 \o (IF "MAXICODE" \in formats THEN <<"MAXICODE">> ELSE <<>>)
                 \o (IF addOneDReader /\ tryHarder THEN <<"ONE_D">> ELSE <<>>)
            ELSE <<>>
    IN IF fromFormats = <<>>
       THEN (IF ~tryHarder THEN <<"ONE_D">> ELSE <<>>)
            \o <<"QR", "DM", "AZTEC", "PDF417", "MAXICODE">>
            \o (IF tryHarder THEN <<"ONE_D">> ELSE <<>>)
       ELSE fromFormats

\* the error decode_internal returns once every attempt of t has failed
MFR_all_failed_lastErr(t) ==
    ErrResult(IF Len(t) = 0 THEN "NotFound" ELSE t[Len(t)].err)
MFR_all_failed(t) == ErrResult("NotFound")

MFR_decode_internal(readers, hints, img, flp) ==
    LET t1 == PassTrace(readers, img, flp, 1)
        \* image.clone() with its black matrix flipped: the caller's bitmap is untouched
        t2 == PassTrace(readers, img, ~flp, 2)
    IN IF readers = <<>>
       THEN [trace |-> <<>>, result |-> MFR_all_failed(<<>>), flipped |-> flp]
       ELSE IF PassOk(t1)
       THEN [trace |-> t1, result |-> OkResult(t1, FALSE), flipped |-> flp]
       ELSE IF hints.AlsoInverted # "absent"
       THEN IF PassOk(t2)
            THEN [trace |-> t1 \o t2, result |-> OkResult(t2, FALSE), flipped |-> flp]
            ELSE [trace |-> t1 \o t2, result |-> MFR_all_failed(t1 \o t2), flipped |-> flp]
       ELSE [trace |-> t1, result |-> MFR_all_failed(t1), flipped |-> flp]

----------------------------------------------------------------------------
(* MultiUseMultiFormatReader *)

\* the readers one match arm of decode_formats calls for a possible format
MUMFR_format_readers(f) ==
    CASE f = "QR_CODE" -> <<"CPP_QR", "QR">>
      [] f = "MICRO_QR_CODE" -> <<"CPP_QR">>
      [] f = "DATA_MATRIX" -> <<"DM">>
      [] f = "AZTEC" -> <<"AZTEC">>
      [] f = "PDF_417" -> <<"PDF417">>
      [] f = "MAXICODE" -> <<"MAXICODE">>
      [] OTHER -> <<>>

RECURSIVE MUMFR_iter_formats(_)
MUMFR_iter_formats(pf) ==
    IF pf = <<>> THEN <<>>
    ELSE MUMFR_format_readers(Head(pf)) \o MUMFR_iter_formats(Tail(pf))

\* the readers decode_formats calls, in call order, while none succeeds
MUMFR_reader_order(pf, th) ==
    IF pf # <<>>
    THEN LET one_d == Range(pf) \cap ONE_D_FORMATS # {}
         IN (IF one_d /\ ~th THEN <<"ONE_D">> ELSE <<>>)
            \o MUMFR_iter_formats(pf)
            \o (IF one_d /\ th THEN <<"ONE_D">> ELSE <<>>)
    ELSE (IF ~th THEN <<"ONE_D">> ELSE <<>>)
         \o <<"CPP_QR", "QR", "DM", "AZTEC", "PDF417", "MAXICODE">>
         \o (IF th THEN <<"ONE_D">> ELSE <<>>)

MUMFR_decode_formats(pf, th, img, inv, pass) ==
    PassTrace(MUMFR_reader_order(pf, th), img, inv, pass)

\* the error decode_internal returns once every attempt of t has failed
MUMFR_all_failed_lastErr(t) ==
    ErrResult(IF Len(t) = 0 THEN "UnsupportedOperation" ELSE t[Len(t)].err)
MUMFR_all_failed(t) == ErrResult("NotFound")

MUMFR_decode_internal(pf, th, hints, img, flp) ==
    LET t1 == MUMFR_decode_formats(pf, th, img, flp, 1)
        \* image.get_black_matrix_mut().flip_self(): the caller's bitmap is flipped in place
        t2 == MUMFR_decode_formats(pf, th, img, ~flp, 2)
    IN IF PassOk(t1)
       THEN [trace |-> t1, result |-> OkResult(t1, FALSE), flipped |-> flp]
       ELSE IF hints.AlsoInverted = "true"
       THEN IF PassOk(t2)
            THEN [trace |-> t1 \o t2, result |-> OkResult(t2, TRUE), flipped |-> ~flp]
            ELSE [trace |-> t1 \o t2, result |-> MUMFR_all_failed(t1 \o t2), flipped |-> ~flp]
       ELSE [trace |-> t1, result |-> MUMFR_all_failed(t1), flipped |-> flp]

\* the fields set_hints assigns
MUMFR_set_hints_state(hints) ==
    [hints |-> hints,
     try_harder |-> (hints.TryHarder = "true"),
     possible_formats |-> IF hints.hasFormats THEN hints.formats ELSE <<>>]

----------------------------------------------------------------------------
(* Operations of the dispatchers *)

Called(op, r) == [op |-> op, trace |-> r.trace, result |-> r.result]

MFR_set_ints ==
    /\ kind = "MFR"
    /\ mfr_hints' = h
    /\ mfr_readers' = MFR_set_ints_readers(h)
    /\ supplied' = h
    /\ call' = [op |-> "set_hints", trace |-> <<>>, result |-> NoResult]
    /\ UNCHANGED <<kind, h, image, flipped, mu_hints, possible_formats, try_harder>>

MFR_decode ==
    /\ kind = "MFR"
    /\ LET r == MFR_decode_internal(MFR_set_ints_readers(DefaultHints), DefaultHints,
                                    image, flipped)
       IN /\ call' = Called("decode", r)
          /\ flipped' = r.flipped
    /\ mfr_hints' = DefaultHints
    /\ mfr_readers' = MFR_set_ints_readers(DefaultHints)
    /\ supplied' = DefaultHints
    /\ UNCHANGED <<kind, h, image, mu_hints, possible_formats, try_harder>>

MFR_decode_with_hints ==
    /\ kind = "MFR"
    /\ LET r == MFR_decode_internal(MFR_set_ints_readers(h), h, image, flipped)
       IN /\ call' = Called("decode_with_hints", r)
          /\ flipped' = r.flipped
    /\ mfr_hints' = h
    /\ mfr_readers' = MFR_set_ints_readers(h)
    /\ supplied' = h
    /\ UNCHANGED <<kind, h, image, mu_hints, possible_formats, try_harder>>

MFR_decode_with_state ==
    /\ kind = "MFR"
    /\ LET hs == IF mfr_readers = <<>> THEN DefaultHints ELSE mfr_hints
           rs == IF mfr_readers = <<>> THEN MFR_set_ints_readers(DefaultHints)
                 ELSE mfr_readers
           r == MFR_decode_internal(rs, hs, image, flipped)
       IN /\ call' = Called("decode_with_state", r)
          /\ flipped' = r.flipped
          /\ mfr_hints' = hs
          /\ mfr_readers' = rs
    /\ UNCHANGED <<kind, h, image, mu_hints, possible_formats, try_harder, supplied>>

MUMFR_set_hints ==
    /\ kind = "MUMFR"
    /\ LET s == MUMFR_set_hints_state(h)
       IN /\ mu_hints' = s.hints
          /\ try_harder' = s.try_harder
          /\ possible_formats' = s.possible_formats
    /\ supplied' = h
    /\ call' = [op |-> "set_hints", trace |-> <<>>, result |-> NoResult]
    /\ UNCHANGED <<kind, h, image, flipped, mfr_hints, mfr_readers>>

MUMFR_decode ==
    /\ kind = "MUMFR"
    /\ LET s == MUMFR_set_hints_state(DefaultHints)
           r == MUMFR_decode_internal(s.possible_formats, s.try_harder, s.hints,
                                      image, flipped)
       IN /\ mu_hints' = s.hints
          /\ try_harder' = s.try_harder
          /\ possible_formats' = s.possible_formats
          /\ call' = Called("decode", r)
          /\ flipped' = r.flipped
    /\ supplied' = DefaultHints
    /\ UNCHANGED <<kind, h, image, mfr_hints, mfr_readers>>

MUMFR_decode_with_hints ==
    /\ kind = "MUMFR"
    /\ LET s == MUMFR_set_hints_state(h)
           r == MUMFR_decode_internal(s.possible_formats, s.try_harder, s.hints,
                                      image, flipped)
       IN /\ mu_hints' = s.hints
          /\ try_harder' = s.try_harder
          /\ possible_formats' = s.possible_formats
          /\ call' = Called("decode_with_hints", r)
          /\ flipped' = r.flipped
    /\ supplied' = h
    /\ UNCHANGED <<kind, h, image, mfr_hints, mfr_readers>>

MUMFR_decode_with_state ==
    /\ kind = "MUMFR"
    /\ LET s == IF possible_formats = <<>>
                THEN MUMFR_set_hints_state(DefaultHints)
                ELSE [hints |-> mu_hints, try_harder |-> try_harder,
                      possible_formats |-> possible_formats]
           r == MUMFR_decode_internal(s.possible_formats, s.try_harder, s.hints,
                                      image, flipped)
       IN /\ mu_hints' = s.hints
          /\ try_harder' = s.try_harder
          /\ possible_formats' = s.possible_formats
          /\ call' = Called("decode_with_state", r)
          /\ flipped' = r.flipped
    /\ UNCHANGED <<kind, h, image, mfr_hints, mfr_readers, supplied>>

----------------------------------------------------------------------------
(* Properties of the dispatchers *)

IsDecode == call.op \in {"decode", "decode_with_hints", "decode_with_state"}

Attempts == 1..Len(call.trace)

\* the formats a reader decodes
ReaderFormats(r) ==
    CASE r = "ONE_D" -> ONE_D_FORMATS
      [] r = "CPP_QR" -> {"QR_CODE", "MICRO_QR_CODE"}
      [] r = "QR" -> {"QR_CODE"}
      [] r = "DM" -> {"DATA_MATRIX"}
      [] r = "AZTEC" -> {"AZTEC"}
      [] r = "PDF417" -> {"PDF_417"}
      [] r = "MAXICODE" -> {"MAXICODE"}

\* position of a 2D reader's symbology in the order QR, Data Matrix, Aztec, PDF417, MaxiCode
SymbologyRank(r) ==
    CASE r \in {"CPP_QR", "QR"} -> 1
      [] r = "DM" -> 2
      [] r = "AZTEC" -> 3
      [] r = "PDF417" -> 4
      [] r = "MAXICODE" -> 5

\* C1: in every pass of a decode call in which the 1D reader and a 2D reader
\* are both attempted, the 1D reader comes before the 2D reader when the
\* TryHarder hint in force is false or absent, and after it when the hint is true.
C1_OneDOrderFollowsTryHarder ==
    IsDecode =>
        \A i, j \in Attempts :
            (/\ call.trace[i].reader = "ONE_D"
             /\ call.trace[j].reader \in TwoDReaders
             /\ call.trace[i].pass = call.trace[j].pass)
            => IF supplied.TryHarder = "true" THEN j < i ELSE i < j

\* C2: when the hints in force name possible formats, every reader a decode
\* call attempts decodes one of the named formats.  (The empty set is left
\* aside: the specification's design notes settle it as "run all readers".)
C2_OnlyPossibleFormatsRun ==
    (IsDecode /\ supplied.hasFormats /\ supplied.formats # <<>>) =>
        \A i \in Attempts :
            ReaderFormats(call.trace[i].reader) \cap Range(supplied.formats) # {}

\* C3: a successful decode carries IS_INVERTED = true exactly when the
\* successful attempt belongs to the inverted pass.
C3_InvertedPassTagged ==
    (IsDecode /\ call.result.ok) =>
        (call.result.isInverted <=> call.result.pass = 2)

\* C4: a decode call stops at its first successful attempt and returns it;
\* attempts on the inverted matrix happen only when the AlsoInverted hint is
\* given, only after all attempts on the non-inverted matrix, and over the
\* same readers in the same order; a call without success returns NotFound.
C4_FirstSuccessWins ==
    IsDecode =>
        /\ \A i \in Attempts : i < Len(call.trace) => ~call.trace[i].ok
        /\ call.result.ok <=> PassOk(call.trace)
        /\ call.result.ok => call.result.reader = call.trace[Len(call.trace)].reader
        /\ ~call.result.ok => call.result.err = "NotFound"
        /\ \A i, j \in Attempts : (i < j /\ call.trace[i].inv) => call.trace[j].inv
        /\ (\E i \in Attempts : call.trace[i].inv) => supplied.AlsoInverted # "absent"
        /\ LET normal == {i \in Attempts : ~call.trace[i].inv}
               n == Cardinality(normal)
           IN \A i \in Attempts \ normal :
                  /\ i - n \in normal
                  /\ call.trace[i].reader = call.trace[i - n].reader

\* an attempt of the call failed with a Format or Checksum error and none succeeded
FormatOrChecksumFailure ==
    /\ IsDecode
    /\ ~PassOk(call.trace)
    /\ \E i \in Attempts : call.trace[i].err \in {"Format", "Checksum"}

\* C5 (as claimed): when an attempt fails with Format or Checksum and no
\* attempt succeeds, decode returns an error of that kind.
C5_ErrorKindSurfaced ==
    FormatOrChecksumFailure =>
        /\ ~call.result.ok
        /\ \E i \in Attempts : call.result.err = call.trace[i].err

\* C5 (amended): when an attempt fails with Format or Checksum and no attempt
\* succeeds, decode returns NotFound; the reader's error kind is not surfaced.
C5_AllFailedIsNotFound ==
    FormatOrChecksumFailure => call.result = ErrResult("NotFound")

C5_Witness ==
    /\ FormatOrChecksumFailure
    /\ Len(call.trace) >= 2
    /\ call.result.err = "NotFound"

\* what decode_with_hints(supplied) returns from the current state
DecodeWithSuppliedHints ==
    IF kind = "MFR"
    THEN MFR_decode_internal(MFR_set_ints_readers(supplied), supplied, image, flipped)
    ELSE LET s == MUMFR_set_hints_state(supplied)
         IN MUMFR_decode_internal(s.possible_formats, s.try_harder, s.hints, image, flipped)

\* C6: a decode_with_state call makes the attempts and returns the result
\* that the hints most recently supplied to the reader determine, i.e. those
\* of decode_with_hints with these hints.
C6_StateDecodeUsesSuppliedHints ==
    [][(MFR_decode_with_state \/ MUMFR_decode_with_state) =>
         /\ call'.trace = DecodeWithSuppliedHints.trace
         /\ call'.result = DecodeWithSuppliedHints.result]_vars

\* C7: within a pass the 2D readers are attempted in the order QR, Data
\* Matrix, Aztec, PDF417, MaxiCode and no reader is attempted twice.
C7_TwoDOrderFixed ==
    IsDecode =>
        \A i, j \in Attempts :
            (/\ i < j
             /\ call.trace[i].pass = call.trace[j].pass
             /\ call.trace[i].reader \in TwoDReaders
             /\ call.trace[j].reader \in TwoDReaders)
            => /\ SymbologyRank(call.trace[i].reader) <= SymbologyRank(call.trace[j].reader)
               /\ call.trace[i].reader # call.trace[j].reader

\* C25: no call on a MultiUseMultiFormatReader changes the black matrix of
\* the caller's bitmap: after the call it is what it was before, inverted
\* retry or not, success or failure.
C25_DecodeLeavesBlackMatrix == [][kind = "MUMFR" => flipped' = flipped]_vars

----------------------------------------------------------------------------
(* BitMatrix *)

\* bits per storage word; a word is modelled by the set of its one-bit positions
BASE_BITS == 32
AllBits == 0..(BASE_BITS - 1)

DivCeil(a, b) == (a + b - 1) \div b
\* a vector of words as a finished sequence value
Words(f) == f \o <<>>
SymDiff(a, b) == (a \ b) \cup (b \ a)

\* matrix dimensions of this model: the small ones and one that needs two words per row
Dims == (1 .. MaxDim) \cup {BASE_BITS + 1}
\* the coordinates handed to the single-bit operations: the first and the last cell
Points(m) == {<<0, 0>>, <<m.width - 1, m.height - 1>>}

BitMatrix_new(width, height) ==
    [width |-> width, height |-> height,
     row_size |-> DivCeil(width, BASE_BITS),
     bits |-> Words([i \in 1..(DivCeil(width, BASE_BITS) * height) |-> {}])]

get_offset(m, y, x) == y * m.row_size + (x \div BASE_BITS)

\* bits[offset], offsets counted from 0 as in the source
Word(m, offset) == m.bits[offset + 1]

get(m, x, y) ==
    LET offset == get_offset(m, y, x)
    IN IF offset >= Len(m.bits) THEN FALSE
       ELSE (x % BASE_BITS) \in Word(m, offset)

set(m, x, y) ==
    LET offset == get_offset(m, y, x)
    IN [m EXCEPT !.bits[offset + 1] = @ \cup {x % BASE_BITS}]

unset(m, x, y) ==
    LET offset == get_offset(m, y, x)
    IN [m EXCEPT !.bits[offset + 1] = @ \ {x % BASE_BITS}]

flip_coords(m, x, y) ==
    LET offset == get_offset(m, y, x)
    IN [m EXCEPT !.bits[offset + 1] = SymDiff(@, {x % BASE_BITS})]

flip_self(m) == [m EXCEPT !.bits = Words([i \in 1..Len(m.bits) |-> AllBits \ m.bits[i]])]

\* BitArray: size bits stored in words; the words of getBitArray()
BitArray_with_size(size) ==
    [size |-> size, bits |-> Words([i \in 1..DivCeil(size, BASE_BITS) |-> {}])]

BitArray_setBulk(a, i, newBits) == [a EXCEPT !.bits[(i \div BASE_BITS) + 1] = newBits]

BitArray_set(a, i) == [a EXCEPT !.bits[(i \div BASE_BITS) + 1] = @ \cup {i % BASE_BITS}]

\* reverse: bit i of the result is bit size-1-i of the array
BitArray_reverse(a) ==
    [a EXCEPT !.bits = Words([w \in 1..Len(a.bits) |->
        {b \in AllBits :
            LET i == (w - 1) * BASE_BITS + b
                j == a.size - 1 - i
            IN /\ i < a.size
               /\ (j % BASE_BITS) \in a.bits[(j \div BASE_BITS) + 1]}])]

RECURSIVE getRow_loop(_, _, _, _)
getRow_loop(m, y, x, rw) ==
    IF x >= m.row_size THEN rw
    ELSE getRow_loop(m, y, x + 1,
                     BitArray_setBulk(rw, x * BASE_BITS, Word(m, y * m.row_size + x)))

getRow(m, y) == getRow_loop(m, y, 0, BitArray_with_size(m.width))

setRow(m, y, row) ==
    [m EXCEPT !.bits = Words([i \in 1..Len(m.bits) |->
        IF i - 1 >= y * m.row_size /\ i - 1 < y * m.row_size + m.row_size
        THEN row.bits[i - y * m.row_size]
        ELSE m.bits[i]])]

\* xor: Ok with the new matrix, or Err and the matrix unchanged
xor(m, mask) ==
    IF m.width # mask.width \/ m.height # mask.height \/ m.row_size # mask.row_size
    THEN [ok |-> FALSE, m |-> m]
    ELSE [ok |-> TRUE,
          m |-> [m EXCEPT !.bits = Words([i \in 1..Len(m.bits) |->
                    SymDiff(m.bits[i],
                            getRow(mask, (i - 1) \div m.row_size).bits[((i - 1) % m.row_size) + 1])])]]

setRegion(m, left, top, width, height) ==
    LET right == left + width
        bottom == top + height
    IN IF height < 1 \/ width < 1 THEN [ok |-> FALSE, m |-> m]
       ELSE IF bottom > m.height \/ right > m.width THEN [ok |-> FALSE, m |-> m]
       ELSE [ok |-> TRUE,
             m |-> [m EXCEPT !.bits = Words([i \in 1..Len(m.bits) |->
                       m.bits[i] \cup
                       {b \in AllBits :
                           LET y == (i - 1) \div m.row_size
                               x == ((i - 1) % m.row_size) * BASE_BITS + b
                           IN y >= top /\ y < bottom /\ x >= left /\ x < right}])]]

RECURSIVE rotate180_loop(_, _)
rotate180_loop(m, i) ==
    IF i >= DivCeil(m.height, 2) THEN m
    ELSE LET bottomRowIndex == m.height - 1 - i
             topRow == BitArray_reverse(getRow(m, i))
             bottomRow == BitArray_reverse(getRow(m, bottomRowIndex))
         IN rotate180_loop(setRow(setRow(m, i, bottomRow), bottomRowIndex, topRow), i + 1)

rotate180(m) == rotate180_loop(m, 0)

\* rotate90 with the column loop stopping one column early
rotate90_short(m) ==
    LET newWidth == m.height
        newHeight == m.width
        newRowSize == DivCeil(newWidth, BASE_BITS)
    IN [width |-> newWidth, height |-> newHeight, row_size |-> newRowSize,
        bits |-> Words([o \in 1..(newRowSize * newHeight) |->
            {b \in AllBits :
                LET y == ((o - 1) % newRowSize) * BASE_BITS + b
                    x == newHeight - 1 - ((o - 1) \div newRowSize)
                IN /\ y < m.height
                   /\ x < m.width - 1
                   /\ (x % BASE_BITS) \in Word(m, get_offset(m, y, x))}])]
\* every set bit (x, y) with x < width, y < height goes to word
\* (newHeight - 1 - x) * newRowSize + y / BASE_BITS, bit y % BASE_BITS
rotate90(m) ==
    LET newWidth == m.height
        newHeight == m.width
        newRowSize == DivCeil(newWidth, BASE_BITS)
    IN [width |-> newWidth, height |-> newHeight, row_size |-> newRowSize,
        bits |-> Words([o \in 1..(newRowSize * newHeight) |->
            {b \in AllBits :
                LET y == ((o - 1) % newRowSize) * BASE_BITS + b
                    x == newHeight - 1 - ((o - 1) \div newRowSize)
                IN /\ y < m.height
                   /\ x < m.width
                   /\ (x % BASE_BITS) \in Word(m, get_offset(m, y, x))}])]

rotate(m, degrees) ==
    CASE degrees % 360 = 0 -> [ok |-> TRUE, m |-> m]
      [] degrees % 360 = 90 -> [ok |-> TRUE, m |-> rotate90(m)]
      [] degrees % 360 = 180 -> [ok |-> TRUE, m |-> rotate180(m)]
      [] degrees % 360 = 270 -> [ok |-> TRUE, m |-> rotate180(rotate90(m))]
      [] OTHER -> [ok |-> FALSE, m |-> m]

None == [some |-> FALSE, rect |-> <<0, 0, 0, 0>>]
Some(r) == [some |-> TRUE, rect |-> r]

getEnclosingRectangle(m) ==
    LET nz == {o \in 0..(Len(m.bits) - 1) : Word(m, o) # {}}
        top == Min({m.height} \cup {o \div m.row_size : o \in nz})
        bottom == Max({0} \cup {o \div m.row_size : o \in nz})
        left == Min({m.width} \cup
                    {(o % m.row_size) * BASE_BITS + Min(Word(m, o)) : o \in nz})
        right == Max({0} \cup
                     {(o % m.row_size) * BASE_BITS + Max(Word(m, o)) : o \in nz})
    IN IF right < left \/ bottom < top THEN None
       ELSE Some(<<left, top, right - left + 1, bottom - top + 1>>)

----------------------------------------------------------------------------
(* Operations on the BitMatrix *)

\* the rows a caller hands to setRow: BitArrays of the matrix width
InputRows(m) ==
    {BitArray_with_size(m.width), BitArray_set(BitArray_with_size(m.width), m.width - 1)}

\* the masks a caller hands to xor
InputMasks(m) ==
    {flip_self(BitMatrix_new(m.width, m.height)),
     BitMatrix_new(m.width + 1, m.height)}

BM_set ==
    \E p \in Points(bm) :
        bm' = set(bm, p[1], p[2]) /\ bm_res' = "Ok"

BM_unset ==
    \E p \in Points(bm) :
        bm' = unset(bm, p[1], p[2]) /\ bm_res' = "Ok"

BM_flip_coords ==
    \E p \in Points(bm) :
        bm' = flip_coords(bm, p[1], p[2]) /\ bm_res' = "Ok"

BM_flip_self == bm' = flip_self(bm) /\ bm_res' = "Ok"

BM_setRegion ==
    \E r \in {<<0, 0, bm.width, bm.height>>, <<0, 0, 1, 1>>, <<0, 0, bm.width + 1, 1>>} :
        LET res == setRegion(bm, r[1], r[2], r[3], r[4])
        IN bm' = res.m /\ bm_res' = IF res.ok THEN "Ok" ELSE "Err"

BM_setRow ==
    \E y \in {0, bm.height - 1}, row \in InputRows(bm) :
        bm' = setRow(bm, y, row) /\ bm_res' = "Ok"

BM_rotate ==
    \E degrees \in {0, 90, 180, 270, 45} :
        LET res == rotate(bm, degrees)
        IN bm' = res.m /\ bm_res' = IF res.ok THEN "rotated" ELSE "Err"

BM_xor ==
    \E mask \in InputMasks(bm) :
        LET res == xor(bm, mask)
        IN bm' = res.m /\ bm_res' = IF res.ok THEN "Ok" ELSE "Err"

BMInit ==
    /\ \E width \in Dims, height \in Dims :
           /\ Max({width, height}) <= MaxDim \/ Min({width, height}) <= 2
           /\ bm = BitMatrix_new(width, height)
    /\ bm_res = "new"

BMNext ==
    \/ BM_set
    \/ BM_unset
    \/ BM_flip_coords
    \/ BM_flip_self
    \/ BM_setRegion
    \/ BM_setRow
    \/ BM_rotate
    \/ BM_xor

----------------------------------------------------------------------------
(* Properties of the BitMatrix *)

\* the set bits inside [0, width) x [0, height)
InBoundsBits(m) ==
    {p \in (0..(m.width - 1)) \X (0..(m.height - 1)) : get(m, p[1], p[2])}

\* C8: get answers false for every coordinate with x >= width or y >= height.
C8_GetOutOfRangeIsFalse ==
    \A x \in 0..(bm.width + BASE_BITS), y \in 0..bm.height :
        (x >= bm.width \/ y >= bm.height) => ~get(bm, x, y)

\* C9: getEnclosingRectangle is None exactly when no in-bounds bit is set,
\* and otherwise is the bounding box of the set in-bounds bits.
C9_EnclosingRectangleIsBoundingBox ==
    LET S == InBoundsBits(bm)
        r == getEnclosingRectangle(bm)
        xs == {p[1] : p \in S}
        ys == {p[2] : p \in S}
    IN /\ r.some <=> S # {}
       /\ r.some => r.rect = <<Min(xs), Min(ys), Max(xs) - Min(xs) + 1, Max(ys) - Min(ys) + 1>>

RECURSIVE RotateTimes(_, _, _)
\* n successive rotate(degrees) calls: the final matrix, ok while every call returned Ok
RotateTimes(m, degrees, n) ==
    IF n = 0 THEN [ok |-> TRUE, m |-> m]
    ELSE LET r == rotate(m, degrees)
             rest == RotateTimes(r.m, degrees, n - 1)
         IN [ok |-> r.ok /\ rest.ok, m |-> rest.m]

\* C10: for d in {0, 90, 180, 270} four successive rotate(d) calls all return
\* Ok and give back the width, the height and the in-bounds bits.
C10_RotateFourTimesIsIdentity ==
    \A d \in {0, 90, 180, 270} :
        LET r == RotateTimes(bm, d, 4)
        IN /\ r.ok
           /\ r.m.width = bm.width
           /\ r.m.height = bm.height
           /\ InBoundsBits(r.m) = InBoundsBits(bm)

\* a two-words-wide, non-square matrix with set bits in both words and a clear
\* bit, reached by a rotation
C10_Witness ==
    /\ bm_res = "rotated"
    /\ bm.width = BASE_BITS + 1
    /\ bm.height # bm.width
    /\ get(bm, 0, 0)
    /\ get(bm, BASE_BITS, 0)
    /\ ~get(bm, 0, bm.height - 1)

----------------------------------------------------------------------------
(* BitSource and BitSourceBuilder (src/src/common/bit_source.rs,          *)
(* src/src/common/bit_source_builder.rs)                                  *)

\* a u8 or u32 value is the set of the positions of its one bits, bit 0 the least significant
U8Bits == 0..7
U32Bits == 0..31
\* v << k on a w-bit unsigned value, and v >> k
Shl(v, k, w) == {b + k : b \in v} \cap (0..(w - 1))
Shr(v, k) == {b - k : b \in {c \in v : c >= k}}

\* the byte values of the input slices: 0xA6 and 0x1D
ByteValues == <<{7, 5, 2, 1}, {4, 3, 2, 0}>>
\* the input slices: up to MaxBytes bytes, the two values in turn from either one
Slices == {[i \in 1..k |-> ByteValues[((i + o) % 2) + 1]] : k \in 0..MaxBytes, o \in 0..1}
\* every legal numBits, 0 and 33
AllSizes == 0..33
\* the numBits arguments of the calls: sizes that end inside the current byte, at its
\* end, inside a later byte and after four whole bytes, and the two nearest illegal sizes
ReadSizes == {0, 1, 3, 8, 13, 32, 33}

BitSource_new(bytes) == [bytes |-> bytes, byte_offset |-> 0, bit_offset |-> 0]

available(s) == 8 * (Len(s.bytes) - s.byte_offset) - s.bit_offset

\* "First, read remainder from current byte"; c is [result, num_bits, s]
readBits_head(c) ==
    IF c.s.bit_offset > 0
    THEN LET bitsLeft == 8 - c.s.bit_offset
             toRead == Min({c.num_bits, bitsLeft})
             bitsToNotRead == bitsLeft - toRead
             mask == Shl(Shr(U8Bits, 8 - toRead), bitsToNotRead, 8)
             bit_offset == c.s.bit_offset + toRead
         IN [result |-> Shr(c.s.bytes[c.s.byte_offset + 1] \cap mask, bitsToNotRead),
             num_bits |-> c.num_bits - toRead,
             s |-> IF bit_offset = 8
                   THEN [c.s EXCEPT !.bit_offset = 0, !.byte_offset = @ + 1]
                   ELSE [c.s EXCEPT !.bit_offset = bit_offset]]
    ELSE c

RECURSIVE readBits_whole(_)
\* "Next read whole bytes"
readBits_whole(c) ==
    IF c.num_bits >= 8
    THEN readBits_whole([result |-> Shl(c.result, 8, 32) \cup c.s.bytes[c.s.byte_offset + 1],
                         num_bits |-> c.num_bits - 8,
                         s |-> [c.s EXCEPT !.byte_offset = @ + 1]])
    ELSE c

\* the same step with the final byte taken from its low bits
readBits_partial_low(c) ==
    IF c.num_bits > 0
    THEN LET bits_to_not_read == 8 - c.num_bits
             mask == Shr(U8Bits, bits_to_not_read)
         IN [c EXCEPT !.result = Shl(c.result, c.num_bits, 32)
                                     \cup (c.s.bytes[c.s.byte_offset + 1] \cap mask),
                      !.s.bit_offset = @ + c.num_bits]
    ELSE c
\* "Finally read a partial byte"
readBits_partial(c) ==
    IF c.num_bits > 0
    THEN LET bits_to_not_read == 8 - c.num_bits
             mask == Shl(Shr(U8Bits, bits_to_not_read), bits_to_not_read, 8)
         IN [c EXCEPT !.result = Shl(c.result, c.num_bits, 32)
                                     \cup Shr(c.s.bytes[c.s.byte_offset + 1] \cap mask,
                                              bits_to_not_read),
                      !.s.bit_offset = @ + c.num_bits]
    ELSE c

\* the same call without the upper limit on numBits
readBits_no_limit(s, numBits) ==
    IF numBits < 1 \/ numBits > available(s)
    THEN [ok |-> FALSE, value |-> {}, s |-> s]
    ELSE LET c1 == readBits_head([result |-> {}, num_bits |-> numBits, s |-> s])
             c2 == IF c1.num_bits > 0 THEN readBits_partial(readBits_whole(c1)) ELSE c1
         IN [ok |-> TRUE, value |-> c2.result, s |-> c2.s]
\* readBits: Err(IllegalArgument) and the source untouched, or Ok(value) and the moved cursor
readBits(s, numBits) ==
    IF ~(numBits \in 1..32) \/ numBits > available(s)
    THEN [ok |-> FALSE, value |-> {}, s |-> s]
    ELSE LET c1 == readBits_head([result |-> {}, num_bits |-> numBits, s |-> s])
             c2 == IF c1.num_bits > 0 THEN readBits_partial(readBits_whole(c1)) ELSE c1
         IN [ok |-> TRUE, value |-> c2.result, s |-> c2.s]

\* peak_bits works on local copies of the offsets; c is [result, num_bits, byte_offset, bit_offset]
peak_bits_head(s, c) ==
    IF s.bit_offset > 0
    THEN LET bitsLeft == 8 - s.bit_offset
             toRead == Min({c.num_bits, bitsLeft})
             bitsToNotRead == bitsLeft - toRead
             mask == Shl(Shr(U8Bits, 8 - toRead), bitsToNotRead, 8)
             bit_offset == c.bit_offset + toRead
         IN [result |-> Shr(s.bytes[s.byte_offset + 1] \cap mask, bitsToNotRead),
             num_bits |-> c.num_bits - toRead,
             byte_offset |-> IF bit_offset = 8 THEN c.byte_offset + 1 ELSE c.byte_offset,
             bit_offset |-> bit_offset]
    ELSE c

RECURSIVE peak_bits_whole(_, _)
peak_bits_whole(s, c) ==
    IF c.num_bits >= 8
    THEN peak_bits_whole(s, [c EXCEPT !.result = Shl(c.result, 8, 32) \cup s.bytes[c.byte_offset + 1],
                                      !.byte_offset = @ + 1,
                                      !.num_bits = @ - 8])
    ELSE c

peak_bits_partial(s, c) ==
    IF c.num_bits > 0
    THEN LET bits_to_not_read == 8 - c.num_bits
             mask == Shl(Shr(U8Bits, bits_to_not_read), bits_to_not_read, 8)
         IN [c EXCEPT !.result = Shl(c.result, c.num_bits, 32)
                                     \cup Shr(s.bytes[c.byte_offset + 1] \cap mask,
                                              bits_to_not_read)]
    ELSE c

\* the same call reading the whole bytes from the source's own byte offset
peak_bits_stale_offset(s, numBits) ==
    IF ~(numBits \in 1..32) \/ numBits > available(s)
    THEN [ok |-> FALSE, value |-> {}]
    ELSE LET c0 == [result |-> {}, num_bits |-> numBits,
                    byte_offset |-> s.byte_offset, bit_offset |-> s.bit_offset]
             c1 == [peak_bits_head(s, c0) EXCEPT !.byte_offset = s.byte_offset]
             c2 == IF c1.num_bits > 0 THEN peak_bits_partial(s, peak_bits_whole(s, c1)) ELSE c1
         IN [ok |-> TRUE, value |-> c2.result]
\* peak_bits: Err(IllegalArgument) or Ok(value); it takes &self
peak_bits(s, numBits) ==
    IF ~(numBits \in 1..32) \/ numBits > available(s)
    THEN [ok |-> FALSE, value |-> {}]
    ELSE LET c0 == [result |-> {}, num_bits |-> numBits,
                    byte_offset |-> s.byte_offset, bit_offset |-> s.bit_offset]
             c1 == peak_bits_head(s, c0)
             c2 == IF c1.num_bits > 0 THEN peak_bits_partial(s, peak_bits_whole(s, c1)) ELSE c1
         IN [ok |-> TRUE, value |-> c2.result]

BitSourceBuilder_new == [output |-> <<>>, nextByte |-> {}, bitsLeftInNextByte |-> 8]

RECURSIVE write_unshifted(_, _, _)
\* the same method with the bits for the current byte taken from the low end of value
write_unshifted(b, value, numBits) ==
    IF numBits <= b.bitsLeftInNextByte
    THEN LET nextByte == Shl(b.nextByte, numBits, 32) \cup value
             bitsLeftInNextByte == b.bitsLeftInNextByte - numBits
         IN IF bitsLeftInNextByte = 0
            THEN [output |-> Append(b.output, nextByte \cap U8Bits),
                  nextByte |-> {}, bitsLeftInNextByte |-> 8]
            ELSE [b EXCEPT !.nextByte = nextByte, !.bitsLeftInNextByte = bitsLeftInNextByte]
    ELSE LET bitsToWriteNow == b.bitsLeftInNextByte
             numRestOfBits == numBits - bitsToWriteNow
             mask == Shr(U8Bits, 8 - bitsToWriteNow)
             valueToWriteNow == value \cap mask
         IN write_unshifted(write_unshifted(b, valueToWriteNow, bitsToWriteNow),
                            value, numRestOfBits)
RECURSIVE write(_, _, _)
write(b, value, numBits) ==
    IF numBits <= b.bitsLeftInNextByte
    THEN LET nextByte == Shl(b.nextByte, numBits, 32) \cup value
             bitsLeftInNextByte == b.bitsLeftInNextByte - numBits
         IN IF bitsLeftInNextByte = 0
            THEN [output |-> Append(b.output, nextByte \cap U8Bits),
                  nextByte |-> {}, bitsLeftInNextByte |-> 8]
            ELSE [b EXCEPT !.nextByte = nextByte, !.bitsLeftInNextByte = bitsLeftInNextByte]
    ELSE LET bitsToWriteNow == b.bitsLeftInNextByte
             numRestOfBits == numBits - bitsToWriteNow
             mask == Shr(U8Bits, 8 - bitsToWriteNow)
             valueToWriteNow == Shr(value, numRestOfBits) \cap mask
         IN write(write(b, valueToWriteNow, bitsToWriteNow), value, numRestOfBits)

toByteArray(b) ==
    IF b.bitsLeftInNextByte < 8 THEN write(b, {}, b.bitsLeftInNextByte).output ELSE b.output

NoBitsCall == [op |-> "new", numBits |-> 0, ok |-> TRUE, value |-> {}]

\* the caller copies the source into the builder: it reads while the builder lives
\* and writes each value before it reads the next
BS_readBits ==
    \E numBits \in ReadSizes :
        LET r == readBits(bs, numBits)
        IN /\ bs_unwritten = <<>>
           /\ bsb_out = <<>>
           /\ bs' = r.s
           /\ bs_res' = [op |-> "readBits", numBits |-> numBits, ok |-> r.ok, value |-> r.value]
           /\ bs_unwritten' = IF r.ok THEN <<[value |-> r.value, numBits |-> numBits]>> ELSE <<>>
           /\ UNCHANGED <<bsb, bsb_out>>

BS_peak_bits ==
    \E numBits \in ReadSizes :
        LET r == peak_bits(bs, numBits)
        IN /\ bs_unwritten = <<>>
           /\ bsb_out = <<>>
           /\ bs_res' = [op |-> "peak_bits", numBits |-> numBits, ok |-> r.ok, value |-> r.value]
           /\ UNCHANGED <<bs, bs_unwritten, bsb, bsb_out>>

\* the value just read is handed to the builder with the size it was read with
BSB_write ==
    /\ bs_unwritten # <<>>
    /\ bsb_out = <<>>
    /\ bsb' = write(bsb, bs_unwritten[1].value, bs_unwritten[1].numBits)
    /\ bs_unwritten' = <<>>
    /\ UNCHANGED <<bs, bs_res, bsb_out>>

\* toByteArray consumes the builder; bsb_out holds the returned vector
BSB_toByteArray ==
    /\ bs_unwritten = <<>>
    /\ bsb_out = <<>>
    /\ bsb_out' = <<toByteArray(bsb)>>
    /\ UNCHANGED <<bs, bs_res, bs_unwritten, bsb>>

BSInit ==
    /\ \E bytes \in Slices : bs = BitSource_new(bytes)
    /\ bs_res = NoBitsCall
    /\ bs_unwritten = <<>>
    /\ bsb = BitSourceBuilder_new
    /\ bsb_out = <<>>

BSIdle ==
    /\ bs = BitSource_new(<<>>)
    /\ bs_res = NoBitsCall
    /\ bs_unwritten = <<>>
    /\ bsb = BitSourceBuilder_new
    /\ bsb_out = <<>>

BSNext ==
    \/ BS_readBits
    \/ BS_peak_bits
    \/ BSB_write
    \/ BSB_toByteArray

----------------------------------------------------------------------------
(* BitSource properties *)

\* the position of the next unread bit in the stream
Cursor(s) == 8 * s.byte_offset + s.bit_offset
\* bit i of the stream: bytes in order, each from its high bit to its low bit
StreamBit(bytes, i) == (7 - (i % 8)) \in bytes[(i \div 8) + 1]
\* the number whose n-bit representation, most significant bit first, is the stream from bit p
NextBits(bytes, p, n) == {n - 1 - j : j \in {k \in 0..(n - 1) : StreamBit(bytes, p + k)}}
LegalSizes(s) == {n \in 1..32 : n <= available(s)}

\* C11: readBits(n) and peak_bits(n) fail exactly when n < 1, n > 32 or
\* n > available(); a failing call leaves byte offset, bit offset and
\* available() as they were.
C11_IllegalSizesRejected ==
    \A n \in AllSizes :
        LET illegal == n < 1 \/ n > 32 \/ n > available(bs)
            r == readBits(bs, n)
        IN /\ ~r.ok <=> illegal
           /\ ~peak_bits(bs, n).ok <=> illegal
           /\ ~r.ok => /\ r.s.byte_offset = bs.byte_offset
                       /\ r.s.bit_offset = bs.bit_offset
                       /\ available(r.s) = available(bs)

\* a call with a size in 1..32 was refused in mid-byte for lack of bits, one was refused for its size
C11_Witness ==
    /\ ~bs_res.ok
    /\ \/ /\ bs_res.numBits \in 1..32
          /\ bs_res.numBits > available(bs)
          /\ bs.bit_offset > 0
       \/ /\ bs_res.numBits = 33
          /\ available(bs) >= 33

\* C12: a successful readBits(n) returns the next n unread bits, most
\* significant first, available() drops by exactly n and the bit offset
\* stays in 0..7.
C12_ReadBitsMsbFirst ==
    \A n \in LegalSizes(bs) :
        LET r == readBits(bs, n)
        IN /\ r.ok
           /\ r.value = NextBits(bs.bytes, Cursor(bs), n)
           /\ available(r.s) = available(bs) - n
           /\ r.s.bit_offset \in 0..7

\* a read that started in mid-byte, crossed whole bytes and ended in mid-byte
C12_Witness ==
    /\ bs_res.op = "readBits"
    /\ bs_res.ok
    /\ bs_res.numBits > 8
    /\ bs.bit_offset > 0
    /\ (Cursor(bs) - bs_res.numBits) % 8 # 0
    /\ bs_res.value = NextBits(bs.bytes, Cursor(bs) - bs_res.numBits, bs_res.numBits)

\* C13: for every legal n peak_bits(n) returns what readBits(n) would return
\* from the same cursor state (peak_bits takes the source by shared reference,
\* so the offsets and available() stay as they are).
C13_PeakEqualsRead ==
    \A n \in LegalSizes(bs) :
        /\ peak_bits(bs, n).ok
        /\ peak_bits(bs, n).value = readBits(bs, n).value

\* a peak from mid-byte over more than the rest of the byte and one whole byte
C13_Witness ==
    /\ bs_res.op = "peak_bits"
    /\ bs_res.ok
    /\ bs.bit_offset > 0
    /\ bs_res.numBits > 16
    /\ bs_res.value # {}
    /\ bs_res.value = readBits(bs, bs_res.numBits).value

\* the first p bits of the stream packed into bytes, the last byte filled with zero bits at the low side
PaddedPrefix(bytes, p) ==
    [i \in 1..((p + 7) \div 8) |->
        IF 8 * i <= p THEN bytes[i] ELSE bytes[i] \cap ((8 - (p % 8))..7)]

\* C14: writing every value read, with the size it was read with, makes
\* toByteArray return the bytes read so far, the last one padded with zero
\* bits at the low side: the original bytes once all 8*N bits were read.
C14_BuilderRoundTrip ==
    bsb_out # <<>> =>
        /\ bsb_out[1] = PaddedPrefix(bs.bytes, Cursor(bs))
        /\ available(bs) = 0 => bsb_out[1] = bs.bytes

\* all bits of a slice of at least three bytes were read, in sizes that split bytes, and written back
C14_Witness ==
    /\ bsb_out # <<>>
    /\ Len(bs.bytes) >= 3
    /\ available(bs) = 0
    /\ bs_res.op = "readBits"
    /\ bs_res.ok
    /\ bs_res.numBits > 8
    /\ bs_res.numBits % 8 # 0
    /\ bsb_out[1] = bs.bytes

----------------------------------------------------------------------------
(* PerspectiveTransform (src/crates/common/src/perspective_transform.rs)  *)

\* the coefficients of the integer affine transforms of this model (a13 = a23 = 0, a33 = 1,
\* as squareToQuadrilateral builds them for a parallelogram), exact in f32
Coefficients == -1..1
Offsets == 0..1
Transforms ==
    [a11 : Coefficients, a12 : Coefficients, a13 : {0},
     a21 : Coefficients, a22 : Coefficients, a23 : {0},
     a31 : Offsets, a32 : Offsets, a33 : {1}]
\* the points handed to the transform
Coords == (0..MaxCoord) \X (0..MaxCoord)
PointLists == SeqsUpTo(Coords, MaxPoints)

\* the two layouts of a list of points
Interleaved(ps) == [i \in 1..(2 * Len(ps)) |-> ps[(i + 1) \div 2][2 - (i % 2)]]
XValues(ps) == [i \in 1..Len(ps) |-> ps[i][1]]
YValues(ps) == [i \in 1..Len(ps) |-> ps[i][2]]

RECURSIVE transform_points_single_loop(_, _, _, _)
\* the while loop: i and maxI are the code's 0-based indices
transform_points_single_loop(t, points, i, maxI) ==
    IF i < maxI
    THEN LET x == points[i + 1]
             y == points[i + 2]
             denominator == t.a13 * x + t.a23 * y + t.a33
         IN transform_points_single_loop(t,
                [points EXCEPT ![i + 1] = (t.a11 * x + t.a21 * y + t.a31) \div denominator,
                               ![i + 2] = (t.a12 * x + t.a22 * y + t.a32) \div denominator],
                i + 2, maxI)
    ELSE points

\* points.len() - 1 on an empty slice overflows usize: a panic in a checked build, and
\* otherwise an index past the end at points[0], a panic as well
transform_points_single(t, points) ==
    IF Len(points) = 0
    THEN [panic |-> TRUE, points |-> points]
    ELSE [panic |-> FALSE,
          points |-> transform_points_single_loop(t, points, 0, Len(points) - 1)]

RECURSIVE transform_points_double_loop(_, _, _, _)
\* the zipped loop: *x is overwritten before *y is computed from it
transform_points_double_loop(t, x_values, y_values, i) ==
    IF i <= Min({Len(x_values), Len(y_values)})
    THEN LET denominator == t.a13 * x_values[i] + t.a23 * y_values[i] + t.a33
             x == (t.a11 * x_values[i] + t.a21 * y_values[i] + t.a31) \div denominator
             y == (t.a12 * x + t.a22 * y_values[i] + t.a32) \div denominator
         IN transform_points_double_loop(t, [x_values EXCEPT ![i] = x],
                                         [y_values EXCEPT ![i] = y], i + 1)
    ELSE [x_values |-> x_values, y_values |-> y_values]

transform_points_double(t, x_values, y_values) ==
    transform_points_double_loop(t, x_values, y_values, 1)

PT_transform_points_single ==
    /\ pt_calls.single < MaxTransformCalls
    /\ LET r == transform_points_single(pt, pt_points)
       IN /\ pt_points' = r.points
          /\ pt_panic' = r.panic
    /\ pt_calls' = [pt_calls EXCEPT !.single = @ + 1]
    /\ UNCHANGED <<pt, pt_input, pt_x_values, pt_y_values>>

PT_transform_points_double ==
    /\ pt_calls.double < MaxTransformCalls
    /\ LET r == transform_points_double(pt, pt_x_values, pt_y_values)
       IN /\ pt_x_values' = r.x_values
          /\ pt_y_values' = r.y_values
    /\ pt_calls' = [pt_calls EXCEPT !.double = @ + 1]
    /\ UNCHANGED <<pt, pt_input, pt_points, pt_panic>>

PTInit ==
    /\ pt \in Transforms
    /\ pt_input \in PointLists
    /\ pt_points = Interleaved(pt_input)
    /\ pt_x_values = XValues(pt_input)
    /\ pt_y_values = YValues(pt_input)
    /\ pt_calls = [single |-> 0, double |-> 0]
    /\ pt_panic = FALSE

PTIdle ==
    /\ pt = [a11 |-> 1, a12 |-> 0, a13 |-> 0, a21 |-> 0, a22 |-> 1, a23 |-> 0,
             a31 |-> 0, a32 |-> 0, a33 |-> 1]
    /\ pt_input = <<>>
    /\ pt_points = <<>>
    /\ pt_x_values = <<>>
    /\ pt_y_values = <<>>
    /\ pt_calls = [single |-> 0, double |-> 0]
    /\ pt_panic = FALSE

PTNext ==
    \/ PT_transform_points_single
    \/ PT_transform_points_double

----------------------------------------------------------------------------
(* PerspectiveTransform properties *)

\* the mapping of the specification, every term from the original x and y
Mapped(t, p) ==
    LET d == t.a13 * p[1] + t.a23 * p[2] + t.a33
    IN <<(t.a11 * p[1] + t.a21 * p[2] + t.a31) \div d,
         (t.a12 * p[1] + t.a22 * p[2] + t.a32) \div d>>
RECURSIVE MappedTimes(_, _, _)
MappedTimes(t, ps, n) ==
    IF n = 0 THEN ps ELSE MappedTimes(t, [i \in 1..Len(ps) |-> Mapped(t, ps[i])], n - 1)

\* C15: transform_points_single and transform_points_double both replace
\* every point (x, y) by the mapping computed from the original x and y, so
\* after as many calls the two layouts hold the same points.
C15_BothLayoutsMapEveryPoint ==
    LET s == MappedTimes(pt, pt_input, pt_calls.single)
        dd == MappedTimes(pt, pt_input, pt_calls.double)
    IN /\ ~pt_panic
       /\ pt_points = Interleaved(s)
       /\ pt_x_values = XValues(dd)
       /\ pt_y_values = YValues(dd)
       /\ pt_calls.single = pt_calls.double =>
              /\ pt_x_values = XValues(s)
              /\ pt_y_values = YValues(s)

----------------------------------------------------------------------------
(* DefaultGridSampler (src/src/common/default_grid_sampler.rs)            *)

\* A Point is a pair of coordinates counted in half pixels, so that the centre of a
\* cell and the 0.5 offsets are integers: the point (x, y) of the code is <<2x, 2y>>.
Point(x, y) == <<2 * x, 2 * y>>
Point_default == <<0, 0>>
centered(p) == <<p[1] + 1, p[2] + 1>>

\* the transforms of the sampler controls: output cell to image pixel, x' = a11 x + a31,
\* y' = a22 y + a32, and one that is not valid
GridTransforms ==
    [a11 : 1..2, a12 : {0}, a13 : {0}, a21 : {0}, a22 : 1..2, a23 : {0},
     a31 : 0..1, a32 : {0}, a33 : {1}, valid : BOOLEAN]
isValid(t) == t.valid
\* the mapping of the specification on half-pixel coordinates
transform_point(t, p) ==
    LET d == t.a13 * p[1] + t.a23 * p[2] + 2 * t.a33
    IN <<(2 * (t.a11 * p[1] + t.a21 * p[2] + 2 * t.a31)) \div d,
         (2 * (t.a12 * p[1] + t.a22 * p[2] + 2 * t.a32)) \div d>>

\* BitMatrix::isIn with b = 0, and get_point (the coordinates truncated to u32)
is_in(m, p) == 0 <= p[1] /\ p[1] < 2 * m.width /\ 0 <= p[2] /\ p[2] < 2 * m.height
get_point(m, p) == get(m, Max({p[1], 0}) \div 2, Max({p[2], 0}) \div 2)

\* the images handed to the sampler: a small and a larger one, blank or with two pixels set
GridImages ==
    UNION {{BitMatrix_new(w, w), set(set(BitMatrix_new(w, w), 0, 0), 1, 1)} : w \in {2, 2 * MaxGrid + 2}}
\* the regions of interest: the whole grid, or its first column and the rest
GridControls(dimensionX, dimensionY, t) ==
    {<<[p0 |-> Point(0, 0), p1 |-> Point(dimensionX, dimensionY), transform |-> t]>>}
    \cup IF dimensionX < 2 THEN {}
         ELSE {<<[p0 |-> Point(0, 0), p1 |-> Point(1, dimensionY), transform |-> t],
                 [p0 |-> Point(1, 0), p1 |-> Point(dimensionX, dimensionY), transform |-> t]>>}

\* the precheck of one control: its transform and the four corner cells of its region
sample_grid_precheck(img, c) ==
    LET isInside(x, y) == is_in(img, transform_point(c.transform, centered(<<x, y>>)))
    IN /\ isValid(c.transform)
       /\ isInside(c.p0[1], c.p0[2])
       /\ isInside(c.p1[1] - 2, c.p0[2])
       /\ isInside(c.p1[1] - 2, c.p1[2] - 2)
       /\ isInside(c.p0[1], c.p1[2] - 2)

\* the cells of a control's region, with the image point of each centre
sample_grid_cells(c) ==
    {[x |-> x, y |-> y, p |-> transform_point(c.transform, centered(Point(x, y)))] :
        x \in (c.p0[1] \div 2)..((c.p1[1] \div 2) - 1),
        y \in (c.p0[2] \div 2)..((c.p1[2] \div 2) - 1)}

RECURSIVE sample_grid_set(_, _, _)
\* bits.set(x, y) for every cell whose image point is black
sample_grid_set(img, bits, cells) ==
    IF cells = {} THEN bits
    ELSE LET c == CHOOSE c \in cells : TRUE
         IN sample_grid_set(img, IF get_point(img, c.p) THEN set(bits, c.x, c.y) ELSE bits,
                            cells \ {c})

RECURSIVE projectCorner(_, _)
\* the first control whose region holds p projects it; no control: Point::default()
projectCorner(controls, p) ==
    IF controls = <<>> THEN Point_default
    ELSE LET c == Head(controls)
         IN IF c.p0[1] <= p[1] /\ p[1] <= c.p1[1] /\ c.p0[2] <= p[2] /\ p[2] <= c.p1[2]
            THEN LET q == transform_point(c.transform, p) IN <<q[1] + 1, q[2] + 1>>
            ELSE projectCorner(Tail(controls), p)

NoGrid == [op |-> "new", ok |-> FALSE, dimensionX |-> 0, dimensionY |-> 0, controls |-> <<>>,
           bits |-> BitMatrix_new(1, 1), points |-> <<>>]

\* sample_grid: Err(NOT_FOUND), or Ok((bits, [tl, tr, bl, br])) with the corners as the code names them
sample_grid(img, dimensionX, dimensionY, controls) ==
    LET res0 == [NoGrid EXCEPT !.op = "sample_grid", !.dimensionX = dimensionX,
                               !.dimensionY = dimensionY, !.controls = controls]
        cells == UNION {sample_grid_cells(controls[i]) : i \in 1..Len(controls)}
    IN IF dimensionX = 0 \/ dimensionY = 0 THEN res0
       ELSE IF \E i \in 1..Len(controls) : ~sample_grid_precheck(img, controls[i]) THEN res0
       ELSE IF \E c \in cells : ~is_in(img, c.p) THEN res0
       ELSE LET tl == projectCorner(controls, Point_default)
                tr == projectCorner(controls, Point(dimensionX, 0))
                bl == projectCorner(controls, Point(dimensionX, dimensionY))
                br == projectCorner(controls, Point(0, dimensionX))
            IN [res0 EXCEPT
                   !.ok = TRUE,
                   !.bits = sample_grid_set(img, BitMatrix_new(dimensionX, dimensionY), cells),
                   !.points = <<tl, tr, bl, br>>]

GS_sample_grid ==
    /\ \E dimensionX \in 0..MaxGrid, dimensionY \in 0..MaxGrid, t \in GridTransforms :
           \E controls \in GridControls(dimensionX, dimensionY, t) :
               gs_res' = sample_grid(gs_image, dimensionX, dimensionY, controls)
    /\ UNCHANGED gs_image

GSInit == gs_image \in GridImages /\ gs_res = NoGrid

GSIdle == gs_image = BitMatrix_new(1, 1) /\ gs_res = NoGrid

GSNext == GS_sample_grid

----------------------------------------------------------------------------
(* DefaultGridSampler properties *)

\* C16: on success the four points are the projections of the grid corners
\* (0,0), (dimX,0), (dimX,dimY), (0,dimY), in that order, square grid or not.
C16_CornersProjected ==
    gs_res.ok =>
        gs_res.points = <<projectCorner(gs_res.controls, Point(0, 0)),
                          projectCorner(gs_res.controls, Point(gs_res.dimensionX, 0)),
                          projectCorner(gs_res.controls, Point(gs_res.dimensionX, gs_res.dimensionY)),
                          projectCorner(gs_res.controls, Point(0, gs_res.dimensionY))>>

----------------------------------------------------------------------------
(* AztecReader (src/src/aztec/aztec_reader.rs)                            *)

\* what a call of the detector or of the decoder can return: Ok or an error kind
AztecErrKinds == {"NotFound", "Format", "IllegalArgument"}
AztecOutcomes == {"Ok"} \cup AztecErrKinds
\* an image, by what Detector::detect(false), Detector::detect(true) and decoder::decode
\* of either detector result return on it
AztecImages ==
    [detect : [BOOLEAN -> AztecOutcomes], decode : [BOOLEAN -> AztecOutcomes]]

NoAztecCall == [op |-> "new", trace |-> <<>>, ok |-> FALSE, err |-> ""]

\* the calls made, in order, and the outcome of the reader
internal_decode_with_hints(img) ==
    LET first == <<[call |-> "detect", isMirror |-> FALSE, outcome |-> img.detect[FALSE]]>>
        second == <<[call |-> "detect", isMirror |-> TRUE, outcome |-> img.detect[TRUE]]>>
        decoded(t, m) ==
            LET trace == Append(t, [call |-> "decode", isMirror |-> m, outcome |-> img.decode[m]])
            IN IF img.decode[m] = "Ok"
               THEN [trace |-> trace, ok |-> TRUE, err |-> ""]
               ELSE [trace |-> trace, ok |-> FALSE, err |-> img.decode[m]]
    IN IF img.detect[FALSE] = "Ok" THEN decoded(first, FALSE)
       ELSE IF img.detect[TRUE] = "Ok" THEN decoded(first \o second, TRUE)
       ELSE [trace |-> first \o second, ok |-> FALSE, err |-> "NotFound"]

AztecCalled(op, r) == [op |-> op, trace |-> r.trace, ok |-> r.ok, err |-> r.err]

AZ_decode ==
    /\ az_res' = AztecCalled("decode", internal_decode_with_hints(az_image))
    /\ UNCHANGED az_image

AZ_decode_with_hints ==
    /\ az_res' = AztecCalled("decode_with_hints", internal_decode_with_hints(az_image))
    /\ UNCHANGED az_image

AZ_immutable_decode_with_hints ==
    /\ az_res' = AztecCalled("immutable_decode_with_hints", internal_decode_with_hints(az_image))
    /\ UNCHANGED az_image

AZInit == az_image \in AztecImages /\ az_res = NoAztecCall

AZIdle ==
    /\ az_image = [detect |-> [m \in BOOLEAN |-> "NotFound"], decode |-> [m \in BOOLEAN |-> "Ok"]]
    /\ az_res = NoAztecCall

AZNext ==
    \/ AZ_decode
    \/ AZ_decode_with_hints
    \/ AZ_immutable_decode_with_hints

----------------------------------------------------------------------------
(* AztecReader properties *)

\* the calls of a trace made for the mirrored attempt
MirroredCalls(t) == {i \in 1..Len(t) : t[i].isMirror}
\* the error the non-mirrored attempt ended with, "" when it succeeded
FirstAttemptError(t) ==
    LET errs == {i \in 1..Len(t) : ~t[i].isMirror /\ t[i].outcome # "Ok"}
    IN IF errs = {} THEN "" ELSE t[Min(errs)].outcome

\* C17: the reader first detects non-mirrored; it makes the mirrored attempt
\* only when the first attempt failed with NotFound; any other error of the
\* first attempt is returned and no mirrored attempt is made.
C17_MirroredOnlyAfterNotFound ==
    az_res.op # "new" =>
        /\ az_res.trace[1] = [call |-> "detect", isMirror |-> FALSE,
                              outcome |-> az_image.detect[FALSE]]
        /\ MirroredCalls(az_res.trace) # {} => FirstAttemptError(az_res.trace) = "NotFound"
        /\ FirstAttemptError(az_res.trace) \notin {"", "NotFound"} =>
               /\ ~az_res.ok
               /\ az_res.err = FirstAttemptError(az_res.trace)
               /\ MirroredCalls(az_res.trace) = {}

----------------------------------------------------------------------------
(* QR bit-stream decoder (src/src/qrcode/decoder/decoded_bit_stream_parser.rs) *)

RECURSIVE ToNat(_)
\* the number a bit set stands for
ToNat(v) == IF v = {} THEN 0 ELSE LET b == CHOOSE b \in v : TRUE IN 2 ^ b + ToNat(v \ {b})

\* Mode::forBits: the mode of a 4-bit indicator, INVALID for the others
Mode_forBits(bits) ==
    CASE bits = 0 -> "TERMINATOR"
      [] bits = 1 -> "NUMERIC"
      [] bits = 2 -> "ALPHANUMERIC"
      [] bits = 3 -> "STRUCTURED_APPEND"
      [] bits = 4 -> "BYTE"
      [] bits = 5 -> "FNC1_FIRST_POSITION"
      [] bits = 7 -> "ECI"
      [] bits = 8 -> "KANJI"
      [] bits = 9 -> "FNC1_SECOND_POSITION"
      [] bits = 13 -> "HANZI"
      [] OTHER -> "INVALID"

\* Mode::getCharacterCountBits for versions 1-9, 10-26 and 27-40
getCharacterCountBits(mode, version) ==
    LET i == IF version <= 9 THEN 1 ELSE IF version <= 26 THEN 2 ELSE 3
    IN CASE mode = "NUMERIC" -> <<10, 12, 14>>[i]
         [] mode = "ALPHANUMERIC" -> <<9, 11, 13>>[i]
         [] mode = "BYTE" -> <<8, 16, 16>>[i]
         [] mode \in {"KANJI", "HANZI"} -> <<8, 10, 12>>[i]
         [] OTHER -> 0

\* CharacterSetECI::getCharacterSetECIByValue answers for the assigned values only
ValidECI(value) == value \in (0..13) \cup (15..18) \cup (20..30) \cup {170, 899}

GB2312_SUBSET == 1
\* ALPHANUMERIC_CHARS has 45 characters, '%' is its 39th; GS stands for the character 0x1D
ALPHANUMERIC_CHARS_len == 45
PERCENT == 38
GS == 100

\* the outcome of a step of the parser: the error kind ("" for none), the field in which the
\* stream ran out of bits ("" when it did not), and the source behind the bits consumed
Step(err, short, s) == [err |-> err, short |-> short, s |-> s]

\* the outcome of a readBits(n)? whose value is not used further
AsStep(t) == Step(t.err, t.short, t.s)

\* the outcome r of bits.readBits(n)?: the error of readBits is propagated as it is;
\* cut tells that the stream had fewer than n bits left for the field
TakeOf(r, cut, field) ==
    [err |-> IF r.ok THEN "" ELSE "IllegalArgument",
     short |-> IF cut THEN field ELSE "",
     value |-> ToNat(r.value),
     s |-> r.s]

\* bits.readBits(n)? of a field
Take(s, n, field) == TakeOf(readBits(s, n), n > available(s), field)

\* the second and third bytes of an ECI designator joined to the bits of the first
parseECIValue_join(rest, high) ==
    IF rest.err # "" THEN rest ELSE [rest EXCEPT !.value = high + @]

\* parseECIValue after its first readBits(8)?: the masks 0x80, 0xC0 and 0xE0 tell the
\* one, two and three byte forms apart
parseECIValue_first(first) ==
    IF first.err # "" THEN first
    ELSE IF first.value < 128 THEN first
    ELSE IF first.value < 192
    THEN parseECIValue_join(Take(first.s, 8, "eci"), (first.value % 64) * 256)
    ELSE IF first.value < 224
    THEN parseECIValue_join(Take(first.s, 16, "eci"), (first.value % 32) * 65536)
    ELSE [first EXCEPT !.err = "Format"]

parseECIValue(s) == parseECIValue_first(Take(s, 8, "eci"))

RECURSIVE readItems(_, _, _)
RECURSIVE readItems_next(_, _, _)
\* the read loop of the Hanzi, Kanji and byte segments: count reads of n bits
readItems(s, count, n) ==
    IF count > 0 THEN readItems_next(Take(s, n, "data"), count, n) ELSE Step("", "", s)
readItems_next(item, count, n) ==
    IF item.err # "" THEN AsStep(item) ELSE readItems(item.s, count - 1, n)

\* the charset decoding that ends the Hanzi, Kanji and byte segments: textOk tells whether
\* the decoder accepts the bytes read
decodeText(r, count, textOk) ==
    IF r.err = "" /\ count > 0 /\ ~textOk THEN Step("Parse", "", r.s) ELSE r

decodeHanziSegment(s, count, textOk) ==
    IF count * 13 > available(s) THEN Step("Format", "data", s)
    ELSE decodeText(readItems(s, count, 13), count, textOk)

decodeKanjiSegment(s, count, textOk) ==
    IF count * 13 > available(s) THEN Step("Format", "data", s)
    ELSE decodeText(readItems(s, count, 13), count, textOk)

decodeByteSegment(s, count, textOk) ==
    IF 8 * count > available(s) THEN Step("Format", "data", s)
    ELSE decodeText(readItems(s, count, 8), count, textOk)

toAlphaNumericChar(value) == IF value >= ALPHANUMERIC_CHARS_len THEN "Format" ELSE ""

\* the characters read by decodeAlphanumericSegment, or the error that ended the reading
Chars(err, short, s, chars) == [err |-> err, short |-> short, s |-> s, chars |-> chars]

RECURSIVE decodeAlphanumeric_read(_, _, _)
RECURSIVE decodeAlphanumeric_pair(_, _, _)
\* the two read loops of decodeAlphanumericSegment
decodeAlphanumeric_read(s, count, chars) ==
    IF count > 1
    THEN IF available(s) < 11 THEN Chars("Format", "data", s, chars)
         ELSE decodeAlphanumeric_pair(Take(s, 11, "data"), count, chars)
    ELSE IF count = 1
    THEN IF available(s) < 6 THEN Chars("Format", "data", s, chars)
         ELSE decodeAlphanumeric_pair(Take(s, 6, "data"), count, chars)
    ELSE Chars("", "", s, chars)
\* the characters of one read: two of 11 bits while count > 1, one of 6 bits at the end
decodeAlphanumeric_pair(bits, count, chars) ==
    IF count > 1
    THEN IF toAlphaNumericChar(bits.value \div 45) # "" THEN Chars("Format", "", bits.s, chars)
         ELSE decodeAlphanumeric_read(bits.s, count - 2,
                                      chars \o <<bits.value \div 45, bits.value % 45>>)
    ELSE IF toAlphaNumericChar(bits.value) # "" THEN Chars("Format", "", bits.s, chars)
    ELSE Chars("", "", bits.s, Append(chars, bits.value))

RECURSIVE decodeAlphanumeric_fnc1(_, _, _)
\* the FNC1 pass `for i in start..result.len()`: len is result.len() as it was when the
\* pass began, i the index into result as it is now
decodeAlphanumeric_fnc1(result, i, len) ==
    IF i >= len THEN [err |-> "", result |-> result]
    ELSE IF i >= Len(result) THEN [err |-> "IndexOutOfBounds", result |-> result]
    ELSE IF result[i + 1] = PERCENT
    THEN IF i < Len(result) - 1 /\ result[i + 2] = PERCENT
         THEN decodeAlphanumeric_fnc1(SubSeq(result, 1, i + 1) \o SubSeq(result, i + 3, Len(result)),
                                      i + 1, len)
         ELSE decodeAlphanumeric_fnc1([result EXCEPT ![i + 1] = GS], i + 1, len)
    ELSE decodeAlphanumeric_fnc1(result, i + 1, len)

\* decodeAlphanumericSegment behind its read loops, r being their outcome and result the
\* text of the earlier segments: the error kind and the text
decodeAlphanumeric_text(r, result, fc1InEffect) ==
    IF r.err = "" /\ fc1InEffect
    THEN decodeAlphanumeric_fnc1(result \o r.chars, Len(result), Len(result \o r.chars))
    ELSE [err |-> r.err, result |-> result \o r.chars]

decodeAlphanumeric_finish(r, fc1InEffect) ==
    IF r.err # "" THEN AsStep(r)
    ELSE Step(decodeAlphanumeric_text(r, <<>>, fc1InEffect).err, "", r.s)

decodeAlphanumericSegment(s, count, fc1InEffect) ==
    decodeAlphanumeric_finish(decodeAlphanumeric_read(s, count, <<>>), fc1InEffect)

RECURSIVE decodeNumericSegment(_, _)
RECURSIVE decodeNumeric_digits(_, _, _)
decodeNumericSegment(s, count) ==
    IF count >= 3
    THEN IF available(s) < 10 THEN Step("Format", "data", s)
         ELSE decodeNumeric_digits(Take(s, 10, "data"), 1000, count - 3)
    ELSE IF count = 2
    THEN IF available(s) < 7 THEN Step("Format", "data", s)
         ELSE decodeNumeric_digits(Take(s, 7, "data"), 100, 0)
    ELSE IF count = 1
    THEN IF available(s) < 4 THEN Step("Format", "data", s)
         ELSE decodeNumeric_digits(Take(s, 4, "data"), 10, 0)
    ELSE Step("", "", s)
\* the range test of the digits read, then the digits left
decodeNumeric_digits(bits, limit, left) ==
    IF bits.value >= limit THEN Step("Format", "", bits.s) ELSE decodeNumericSegment(bits.s, left)

\* the ECI arm of decode
qr_decode_eci(value) ==
    IF value.err = "" /\ ~ValidECI(value.value) THEN Step("Format", "", value.s)
    ELSE AsStep(value)

\* the Hanzi arm of decode after the subset indicator and after the character count
qr_decode_hanzi_count(subset, countHanzi, textOk) ==
    IF countHanzi.err = "" /\ subset = GB2312_SUBSET
    THEN decodeHanziSegment(countHanzi.s, countHanzi.value, textOk)
    ELSE AsStep(countHanzi)

qr_decode_hanzi(subset, version, textOk) ==
    IF subset.err # "" THEN AsStep(subset)
    ELSE qr_decode_hanzi_count(subset.value,
                               Take(subset.s, getCharacterCountBits("HANZI", version), "count"),
                               textOk)

\* the arm of the modes with data after the character count
qr_decode_data(mode, count, textOk, fc1InEffect) ==
    IF count.err # "" THEN AsStep(count)
    ELSE CASE mode = "NUMERIC" -> decodeNumericSegment(count.s, count.value)
           [] mode = "ALPHANUMERIC" -> decodeAlphanumericSegment(count.s, count.value, fc1InEffect)
           [] mode = "BYTE" -> decodeByteSegment(count.s, count.value, textOk)
           [] mode = "KANJI" -> decodeKanjiSegment(count.s, count.value, textOk)

\* the body of the segment loop behind the mode indicator
qr_decode_segment(s, mode, version, textOk, fc1InEffect) ==
    CASE mode = "INVALID" -> Step("Format", "", s)
      [] mode \in {"TERMINATOR", "FNC1_FIRST_POSITION", "FNC1_SECOND_POSITION"} -> Step("", "", s)
      [] mode = "STRUCTURED_APPEND" ->
             IF available(s) < 16 THEN Step("Format", "structured_append", s)
             ELSE AsStep(Take(Take(s, 8, "structured_append").s, 8, "structured_append"))
      [] mode = "ECI" -> qr_decode_eci(parseECIValue(s))
      [] mode = "HANZI" -> qr_decode_hanzi(Take(s, 4, "hanzi"), version, textOk)
      [] OTHER -> qr_decode_data(mode, Take(s, getCharacterCountBits(mode, version), "count"),
                                 textOk, fc1InEffect)

\* what decode returns: Ok or the error kind, the modes read, and the field cut short
QrResult(err, short, modes) == [ok |-> err = "", err |-> err, short |-> short, modes |-> modes]

RECURSIVE qr_decode_loop(_, _, _, _, _)
RECURSIVE qr_decode_next(_, _, _, _, _, _)
\* the segment loop of decode
qr_decode_loop(s, version, textOk, fc1InEffect, modes) ==
    IF available(s) < 4 THEN QrResult("", "", modes)
    ELSE LET mode == Mode_forBits(ToNat(readBits(s, 4).value))
         IN qr_decode_next(mode,
                           qr_decode_segment(readBits(s, 4).s, mode, version, textOk, fc1InEffect),
                           version, textOk, fc1InEffect, modes)
\* the end of one turn of the loop: an error leaves decode, TERMINATOR ends it, the FNC1
\* modes set fc1InEffect
qr_decode_next(mode, r, version, textOk, fc1InEffect, modes) ==
    IF r.err # "" THEN QrResult(r.err, r.short, Append(modes, mode))
    ELSE IF mode = "TERMINATOR" THEN QrResult("", "", Append(modes, mode))
    ELSE qr_decode_loop(r.s, version, textOk,
                        fc1InEffect \/ mode \in {"FNC1_FIRST_POSITION", "FNC1_SECOND_POSITION"},
                        Append(modes, mode))

\* decode(bytes, version, ..)
qr_decode(bytes, version, textOk) ==
    qr_decode_loop(BitSource_new(bytes), version, textOk, FALSE, <<>>)

\* the codewords of this model: the high nibble is one of the mode indicators, the low
\* nibble makes short counts, the Hanzi subsets and the one, two and three byte ECI forms
ModeNibbles == {0, 1, 2, 3, 4, 5, 7, 8, 13}
LowNibbles == {0, 1, 8, 13}
NibbleBits(n) == {b \in 0..3 : (n \div (2 ^ b)) % 2 = 1}
Codewords == {Shl(NibbleBits(hi), 4, 8) \cup NibbleBits(lo) : hi \in ModeNibbles, lo \in LowNibbles}
\* the inputs of decode: a codeword stream, a version of each count-width class, and
\* whether the text of the byte, Kanji and Hanzi segments decodes in its charset
QRInputs == [bytes : SeqsUpTo(Codewords, MaxCodewords), version : {1, 10}, textOk : BOOLEAN]

NoQRCall == [op |-> "new", ok |-> FALSE, err |-> "", short |-> "", modes |-> <<>>]

QR_decode ==
    /\ qr_res' = [op |-> "decode"] @@ qr_decode(qr_input.bytes, qr_input.version, qr_input.textOk)
    /\ UNCHANGED qr_input

QRInit == qr_input \in QRInputs /\ qr_res = NoQRCall

QRIdle == qr_input = [bytes |-> <<>>, version |-> 1, textOk |-> TRUE] /\ qr_res = NoQRCall

QRNext == QR_decode

----------------------------------------------------------------------------
(* QR bit-stream decoder properties *)

\* C18: a stream that ends inside a character-count field, an ECI
\* designator, a Hanzi subset indicator, a structured-append header or the
\* data announced by a character count is answered with a Format error.
C18_TruncatedStreamIsFormatError ==
    qr_res.op = "decode" /\ qr_res.short # "" => ~qr_res.ok /\ qr_res.err = "Format"

----------------------------------------------------------------------------
(* RSS14Reader (src/src/oned/rss/rss_14_reader.rs) *)

\* Pair::new(value, checksumPortion, finderPattern): a pair seen once has count 0
Pair(value, checksumPortion, finder) ==
    [value |-> value, checksumPortion |-> checksumPortion, finder |-> finder, count |-> 0]

NoPair == [value |-> 0, checksumPortion |-> 0, finder |-> 0, count |-> -1]

\* the pairs decodePair finds in the rows of this model: PairA with PairB passes
\* checkChecksum, PairA with PairC does not
PairA == Pair(1, 1, 0)
PairB == Pair(2, 0, 1)
PairC == Pair(3, 1, 1)

RECURSIVE addOrTally_loop(_, _, _)
\* the search loop of addOrTally from position i on: the list with the first pair of the
\* same value counted once more, or <<>> standing for found = false
addOrTally_loop(possiblePairs, pair, i) ==
    IF i > Len(possiblePairs) THEN <<>>
    ELSE IF possiblePairs[i].value = pair.value
    THEN [possiblePairs EXCEPT ![i].count = @ + 1]
    ELSE addOrTally_loop(possiblePairs, pair, i + 1)

addOrTally(possiblePairs, pair) ==
    IF pair = NoPair THEN possiblePairs
    ELSE LET tallied == addOrTally_loop(possiblePairs, pair, 1)
         IN IF tallied = <<>> THEN Append(possiblePairs, pair) ELSE tallied

checkChecksum(leftPair, rightPair) ==
    LET checkValue == (leftPair.checksumPortion + 16 * rightPair.checksumPortion) % 79
        t0 == 9 * leftPair.finder + rightPair.finder
        t1 == IF t0 > 72 THEN t0 - 1 ELSE t0
        targetCheckValue == IF t1 > 8 THEN t1 - 1 ELSE t1
    IN checkValue = targetCheckValue

\* outcomes of a decode: Ok with the two pair values the text is made of, or an error kind
RssOk(left, right, orientation) ==
    [ok |-> TRUE, err |-> "", left |-> left, right |-> right, orientation |-> orientation]
RssErr(e) == [ok |-> FALSE, err |-> e, left |-> 0, right |-> 0, orientation |-> 0]

\* the same search without the test of the counts
decodeRow_match_any(r) ==
    LET hits == {<<i, j>> \in (1 .. Len(r.possibleLeftPairs)) \X (1 .. Len(r.possibleRightPairs)) :
                    checkChecksum(r.possibleLeftPairs[i], r.possibleRightPairs[j])}
    IN IF hits = {} THEN RssErr("NotFound")
       ELSE LET first == CHOOSE p \in hits :
                            \A q \in hits : p[1] < q[1] \/ (p[1] = q[1] /\ p[2] <= q[2])
            IN RssOk(r.possibleLeftPairs[first[1]].value,
                     r.possibleRightPairs[first[2]].value, 0)

\* the first left pair seen more than once with a right pair seen more than once that
\* passes the checksum, in the order of the two nested loops of decodeRow
decodeRow_match(r) ==
    LET hits == {<<i, j>> \in (1 .. Len(r.possibleLeftPairs)) \X (1 .. Len(r.possibleRightPairs)) :
                    /\ r.possibleLeftPairs[i].count > 1
                    /\ r.possibleRightPairs[j].count > 1
                    /\ checkChecksum(r.possibleLeftPairs[i], r.possibleRightPairs[j])}
    IN IF hits = {} THEN RssErr("NotFound")
       ELSE LET first == CHOOSE p \in hits :
                            \A q \in hits : p[1] < q[1] \/ (p[1] = q[1] /\ p[2] <= q[2])
            IN RssOk(r.possibleLeftPairs[first[1]].value,
                     r.possibleRightPairs[first[2]].value, 0)

\* decodeRow on a row in which decodePair finds row.left and, reversed, row.right
decodeRow(r, row) ==
    LET tallied == [possibleLeftPairs |-> addOrTally(r.possibleLeftPairs, row.left),
                    possibleRightPairs |-> addOrTally(r.possibleRightPairs, row.right)]
    IN [r |-> tallied, outcome |-> decodeRow_match(tallied)]

RECURSIVE doDecode(_, _, _)
\* OneDReader::doDecode: decodeRow on the rows of the image in scanning order, until one
\* of them answers Ok
doDecode(r, rows, i) ==
    IF i > Len(rows) THEN [r |-> r, outcome |-> RssErr("NotFound"), rows |-> rows]
    ELSE LET one == decodeRow(r, rows[i])
         IN IF one.outcome.ok
            THEN [r |-> one.r, outcome |-> one.outcome, rows |-> SubSeq(rows, 1, i)]
            ELSE doDecode(one.r, rows, i + 1)

RSS14Reader_new == [possibleLeftPairs |-> <<>>, possibleRightPairs |-> <<>>]

\* decode_with_hints: image.rows are the rows as scanned, image.rotated those of
\* rotateCounterClockwise(), image.isRotateSupported whether the source can be rotated
rss_decode_with_hints(r, img, tryHarder) ==
    LET upright == doDecode(r, img.rows, 1)
    IN IF upright.outcome.ok THEN upright
       ELSE IF tryHarder /\ img.isRotateSupported
       THEN LET result == doDecode(upright.r, img.rotated, 1)
            IN [r |-> result.r,
                outcome |-> IF result.outcome.ok
                            THEN [result.outcome EXCEPT !.orientation = (270 + @) % 360]
                            ELSE result.outcome,
                rows |-> upright.rows \o result.rows]
       ELSE [r |-> upright.r, outcome |-> RssErr("NotFound"), rows |-> upright.rows]

rss_reset(r) == [possibleLeftPairs |-> <<>>, possibleRightPairs |-> <<>>]

\* the rows of the images: what decodePair finds on the left and on the right
RssRows == {[left |-> NoPair, right |-> NoPair], [left |-> PairA, right |-> PairB],
            [left |-> PairA, right |-> PairC]}
\* the rotated image has no row or one row with a symbol in it
RssImages == [rows : SeqsUpTo(RssRows, MaxRows),
              rotated : SeqsUpTo({[left |-> PairA, right |-> PairB]}, 1),
              isRotateSupported : BOOLEAN]
NoRssImage == [rows |-> <<>>, rotated |-> <<>>, isRotateSupported |-> FALSE]
NoRssCall == [op |-> "new", image |-> NoRssImage, tryHarder |-> FALSE, outcome |-> RssErr("")]

\* decodeRow called on one row, as OneDReader::doDecode and any other caller can
RSS_decodeRow ==
    /\ rss_calls < MaxDecodeCalls
    /\ \E row \in RssRows :
          LET done == decodeRow(rss, row)
          IN /\ rss' = done.r
             /\ rss_res' = [op |-> "decodeRow", image |-> NoRssImage, tryHarder |-> FALSE,
                            outcome |-> done.outcome]
             /\ rss_rows' = Append(rss_rows, row)
    /\ rss_calls' = rss_calls + 1

RSS_decode ==
    /\ rss_calls < MaxDecodeCalls
    /\ \E img \in RssImages :
          LET done == rss_decode_with_hints(rss, img, FALSE)
          IN /\ rss' = done.r
             /\ rss_res' = [op |-> "decode", image |-> img, tryHarder |-> FALSE,
                            outcome |-> done.outcome]
             /\ rss_rows' = rss_rows \o done.rows
    /\ rss_calls' = rss_calls + 1

RSS_decode_with_hints ==
    /\ rss_calls < MaxDecodeCalls
    /\ \E img \in RssImages, tryHarder \in BOOLEAN :
          LET done == rss_decode_with_hints(rss, img, tryHarder)
          IN /\ rss' = done.r
             /\ rss_res' = [op |-> "decode", image |-> img, tryHarder |-> tryHarder,
                            outcome |-> done.outcome]
             /\ rss_rows' = rss_rows \o done.rows
    /\ rss_calls' = rss_calls + 1

RSS_reset ==
    /\ rss_res.op \in {"decode", "decodeRow"}
    /\ rss' = rss_reset(rss)
    /\ rss_res' = [rss_res EXCEPT !.op = "reset"]
    /\ rss_rows' = <<>>
    /\ UNCHANGED rss_calls

RSSInit == rss = RSS14Reader_new /\ rss_res = NoRssCall /\ rss_calls = 0 /\ rss_rows = <<>>

RSSIdle == RSSInit

RSSNext == RSS_decodeRow \/ RSS_decode \/ RSS_decode_with_hints \/ RSS_reset

----------------------------------------------------------------------------
(* RSS14Reader properties *)

\* C19: the outcome of a decode call is the outcome a new reader gives on the
\* same image and hints, whatever was decoded on the reader before.
C19_OutcomeIndependentOfEarlierCalls ==
    rss_res.op = "decode" =>
        rss_res.outcome = rss_decode_with_hints(RSS14Reader_new, rss_res.image,
                                                rss_res.tryHarder).outcome

\* the number of decodeRow calls since the last reset that found the value on that side
Tallied(side, value) == Cardinality({i \in 1 .. Len(rss_rows) : rss_rows[i][side].value = value})

\* C24: decodeRow answers with a result only for a left and a right pair each
\* found by at least two decodeRow calls since the last reset and passing
\* checkChecksum together, otherwise with NotFound; no pair list holds a
\* value twice.
C24_ResultNeedsTwoTallies ==
    /\ rss_res.op = "decodeRow" =>
          IF rss_res.outcome.ok
          THEN \E l, r \in {PairA, PairB, PairC} :
                  /\ rss_res.outcome.left = l.value
                  /\ rss_res.outcome.right = r.value
                  /\ Tallied("left", l.value) >= 2
                  /\ Tallied("right", r.value) >= 2
                  /\ checkChecksum(l, r)
          ELSE rss_res.outcome.err = "NotFound"
    /\ \A pairs \in {rss.possibleLeftPairs, rss.possibleRightPairs} :
          \A i, j \in 1 .. Len(pairs) : pairs[i].value = pairs[j].value => i = j

\* a decodeRow call that answered with a result
C24_Witness == rss_res.op = "decodeRow" /\ rss_res.outcome.ok

----------------------------------------------------------------------------
(* ByQuadrantReader (src/src/multi/by_quadrant_reader.rs) *)

\* what the delegate reader answers on a cropped image: Ok with the result points, relative
\* to the crop, or an error kind
QuadOk(points) == [ok |-> TRUE, err |-> "", points |-> points]
QuadErr(e) == [ok |-> FALSE, err |-> e, points |-> <<>>]
QuadAnswers == {QuadOk(<<<<1, 0>>>>), QuadOk(<<<<0, 1>>, <<2, 1>>>>),
                QuadErr("NotFound"), QuadErr("Format")}

\* image.crop(left, top, width, height)
crop(left, top, width, height) == [left |-> left, top |-> top, width |-> width, height |-> height]

makeAbsolute_relative(points, leftOffset, topOffset) == points
makeAbsolute(points, leftOffset, topOffset) ==
    [i \in 1 .. Len(points) |-> <<points[i][1] + leftOffset, points[i][2] + topOffset>>] \o <<>>

\* decode_with_hints on an image of the given size, where answers[k] is what the delegate
\* answers the k-th time it is called: the crops handed to the delegate and the outcome
quad_decode_with_hints(width, height, answers) ==
    LET halfWidth == width \div 2
        halfHeight == height \div 2
        quarterWidth == halfWidth \div 2
        quarterHeight == halfHeight \div 2
        c1 == crop(0, 0, halfWidth, halfHeight)
        c2 == crop(halfWidth, 0, halfWidth, halfHeight)
        c3 == crop(0, halfHeight, halfWidth, halfHeight)
        c4 == crop(halfWidth, halfHeight, halfWidth, halfHeight)
        center == crop(quarterWidth, quarterHeight, halfWidth, halfHeight)
        absolute(res, leftOffset, topOffset) ==
            QuadOk(makeAbsolute(res.points, leftOffset, topOffset))
        ret(crops, outcome) == [crops |-> crops, outcome |-> outcome]
    IN IF ~(~answers[1].ok /\ answers[1].err = "NotFound")
       THEN ret(<<c1>>, answers[1])
       ELSE IF answers[2].ok
       THEN ret(<<c1, c2>>, absolute(answers[2], halfWidth, 0))
       ELSE IF answers[2].err # "NotFound"
       THEN ret(<<c1, c2>>, answers[2])
       ELSE IF answers[3].ok
       THEN ret(<<c1, c2, c3>>, absolute(answers[3], 0, halfHeight))
       ELSE IF answers[3].err # "NotFound"
       THEN ret(<<c1, c2, c3>>, answers[3])
       ELSE IF answers[4].ok
       THEN ret(<<c1, c2, c3, c4>>, absolute(answers[4], halfWidth, halfHeight))
       ELSE IF answers[4].err # "NotFound"
       THEN ret(<<c1, c2, c3, c4>>, answers[4])
       ELSE IF ~answers[5].ok
       THEN ret(<<c1, c2, c3, c4, center>>, answers[5])
       ELSE ret(<<c1, c2, c3, c4, center>>, absolute(answers[5], quarterWidth, quarterHeight))

\* the images: a size and the answers of the delegate to its successive calls
QuadImages == [width : 0 .. MaxSide, height : 0 .. MaxSide, answers : [1 .. 5 -> QuadAnswers]]

NoQuadCall == [op |-> "new", crops |-> <<>>, outcome |-> QuadErr("")]

BQ_decode ==
    /\ bq_res' = [op |-> "decode"] @@
                    quad_decode_with_hints(bq_image.width, bq_image.height, bq_image.answers)
    /\ UNCHANGED bq_image

BQ_decode_with_hints ==
    /\ bq_res' = [op |-> "decode_with_hints"] @@
                    quad_decode_with_hints(bq_image.width, bq_image.height, bq_image.answers)
    /\ UNCHANGED bq_image

BQInit == bq_image \in QuadImages /\ bq_res = NoQuadCall

BQIdle ==
    /\ bq_image = [width |-> 0, height |-> 0, answers |-> [k \in 1 .. 5 |-> QuadErr("NotFound")]]
    /\ bq_res = NoQuadCall

BQNext == BQ_decode \/ BQ_decode_with_hints

----------------------------------------------------------------------------
(* ByQuadrantReader properties *)

\* the five regions of an image in the order top-left, top-right, bottom-left,
\* bottom-right, center: each half the width and half the height of the image
QuadRegions(width, height) ==
    LET w == width \div 2
        ht == height \div 2
    IN <<[left |-> 0, top |-> 0, width |-> w, height |-> ht],
         [left |-> w, top |-> 0, width |-> w, height |-> ht],
         [left |-> 0, top |-> ht, width |-> w, height |-> ht],
         [left |-> w, top |-> ht, width |-> w, height |-> ht],
         [left |-> w \div 2, top |-> ht \div 2, width |-> w, height |-> ht]>>

QuadCalled == bq_res.op # "new"

\* C20: the regions are tried in the order top-left, top-right, bottom-left,
\* bottom-right, center, the next one only after NotFound; the outcome is the
\* first one that is not NotFound, a success with its points moved by the
\* region's (left, top); NotFound on all five is NotFound.
C20_QuadrantsInOrder ==
    QuadCalled =>
        LET regions == QuadRegions(bq_image.width, bq_image.height)
            n == Len(bq_res.crops)
            last == bq_image.answers[n]
        IN /\ n \in 1 .. 5
           /\ bq_res.crops = SubSeq(regions, 1, n)
           /\ \A k \in 1 .. n - 1 : bq_image.answers[k] = QuadErr("NotFound")
           /\ n < 5 => last # QuadErr("NotFound")
           /\ ~last.ok => bq_res.outcome = last
           /\ last.ok =>
                 /\ bq_res.outcome.ok
                 /\ Len(bq_res.outcome.points) = Len(last.points)
                 /\ \A i \in 1 .. Len(last.points) :
                       bq_res.outcome.points[i] =
                           <<last.points[i][1] + regions[n].left, last.points[i][2] + regions[n].top>>

\* a success in the bottom-right quadrant of an image, after three NotFound
C20_Witness ==
    /\ QuadCalled
    /\ Len(bq_res.crops) = 4
    /\ bq_res.outcome.ok
    /\ bq_res.outcome.points # <<>>
    /\ bq_image.width >= 2
    /\ bq_image.height >= 2

----------------------------------------------------------------------------
(* std::io::Read for BitSource (src/src/common/bit_source.rs) *)

RECURSIVE read_loop(_, _, _, _)
\* the loop of read over the first to_read bytes of buf, from byte i on: Err(Unsupported)
\* as soon as readBits(8) fails, with the bytes written and the cursor moved so far
read_loop(s, buf, i, to_read) ==
    IF i > to_read \/ i > Len(buf) THEN [ok |-> TRUE, n |-> to_read, buf |-> buf, s |-> s]
    ELSE LET bits == readBits(s, 8)
         IN IF ~bits.ok THEN [ok |-> FALSE, n |-> 0, buf |-> buf, s |-> s]
            ELSE read_loop(bits.s, [buf EXCEPT ![i] = bits.value \cap U8Bits], i + 1, to_read)

\* read(&mut self, buf): available() counts bits, buf.len() counts bytes
read(s, buf) ==
    LET requested_bytes == Len(buf)
        to_read == IF requested_bytes <= available(s) THEN requested_bytes ELSE available(s)
    IN read_loop(s, buf, 1, to_read)

\* a caller's buffer of m bytes, zeroed
Buffer(m) == [i \in 1 .. m |-> {}]

NoReadCall == [op |-> "new", before |-> BitSource_new(<<>>), m |-> 0, ok |-> TRUE, n |-> 0,
               buf |-> <<>>]

\* readBits calls before the read put the cursor at any bit offset
RD_readBits ==
    /\ rd_res.op # "read"
    /\ \E numBits \in {1, 3, 8} :
          LET r == readBits(rd, numBits)
          IN /\ r.ok
             /\ rd' = r.s
             /\ rd_res' = [rd_res EXCEPT !.op = "readBits"]

RD_read ==
    /\ rd_res.op # "read"
    /\ \E m \in 0 .. MaxBuf :
          LET r == read(rd, Buffer(m))
          IN /\ rd' = r.s
             /\ rd_res' = [op |-> "read", before |-> rd, m |-> m, ok |-> r.ok, n |-> r.n,
                           buf |-> r.buf]

RDInit == (\E bytes \in Slices : rd = BitSource_new(bytes)) /\ rd_res = NoReadCall

RDIdle == rd = BitSource_new(<<>>) /\ rd_res = NoReadCall

RDNext == RD_readBits \/ RD_read

----------------------------------------------------------------------------
(* std::io::Read for BitSource properties *)

\* the number of whole bytes not yet read from a source
WholeBytesLeft(s) == available(s) \div 8

\* C30: read on a source with k unread whole bytes and a buffer of m bytes
\* returns Ok(min(m, k)), fills that many bytes with the next 8-bit groups of
\* the stream and moves the cursor by 8 * min(m, k) bits.
C30_ReadFillsMinOfBufferAndData ==
    rd_res.op = "read" =>
        LET k == WholeBytesLeft(rd_res.before)
            n == IF rd_res.m <= k THEN rd_res.m ELSE k
        IN /\ rd_res.ok
           /\ rd_res.n = n
           /\ \A i \in 1 .. n : rd_res.buf[i] = NextBits(rd_res.before.bytes, Cursor(rd_res.before) + 8 * (i - 1), 8)
           /\ available(rd) = available(rd_res.before) - 8 * n

----------------------------------------------------------------------------
(* decodeAlphanumericSegment on whole segments                              *)
(* (src/src/qrcode/decoder/decoded_bit_stream_parser.rs)                    *)

\* the w-bit value of a number, as a bit set
NatBits(n, w) == {b \in 0 .. (w - 1) : (n \div (2 ^ b)) % 2 = 1}

RECURSIVE AlphanumericBits(_, _)
\* a well-formed alphanumeric segment: the characters two by two in 11 bits, a last single
\* one in 6 bits, written to a builder
AlphanumericBits(b, chars) ==
    IF Len(chars) > 1
    THEN AlphanumericBits(write(b, NatBits(chars[1] * 45 + chars[2], 11), 11),
                          SubSeq(chars, 3, Len(chars)))
    ELSE IF Len(chars) = 1 THEN write(b, NatBits(chars[1], 6), 6)
    ELSE b

\* the characters of the segments: a letter and '%'
LETTER_A == 10
SegmentChars == {LETTER_A, PERCENT}
AlphanumericInputs == [text : SeqsUpTo(SegmentChars, 1), chars : SeqsUpTo(SegmentChars, MaxChars),
                       fc1InEffect : BOOLEAN]

NoSegmentCall == [op |-> "new", err |-> "", result |-> <<>>]

\* decodeAlphanumericSegment(bits, result, count, fc1InEffect) on the bits of an_input.chars
AN_decodeAlphanumericSegment ==
    LET bytes == toByteArray(AlphanumericBits(BitSourceBuilder_new, an_input.chars))
        r == decodeAlphanumeric_read(BitSource_new(bytes), Len(an_input.chars), <<>>)
    IN /\ an_res' = [op |-> "decodeAlphanumericSegment"] @@
                       decodeAlphanumeric_text(r, an_input.text, an_input.fc1InEffect)
       /\ UNCHANGED an_input

ANInit == an_input \in AlphanumericInputs /\ an_res = NoSegmentCall

ANIdle == an_input = [text |-> <<>>, chars |-> <<>>, fc1InEffect |-> FALSE] /\ an_res = NoSegmentCall

ANNext == AN_decodeAlphanumericSegment

----------------------------------------------------------------------------
(* decodeAlphanumericSegment properties *)

RECURSIVE Fnc1Rendered(_)
\* a segment as FNC1 renders it: "%%" is '%', a lone '%' is the separator 0x1D
Fnc1Rendered(chars) ==
    IF chars = <<>> THEN <<>>
    ELSE IF chars[1] # PERCENT THEN <<chars[1]>> \o Fnc1Rendered(Tail(chars))
    ELSE IF Len(chars) > 1 /\ chars[2] = PERCENT
    THEN <<PERCENT>> \o Fnc1Rendered(SubSeq(chars, 3, Len(chars)))
    ELSE <<GS>> \o Fnc1Rendered(Tail(chars))

\* C23: with FNC1 in effect the call succeeds on every well-formed segment
\* and appends its characters, "%%" as '%' and a lone '%' as 0x1D, to the
\* unchanged text of the earlier segments.
C23_Fnc1SegmentRendered ==
    (an_res.op = "decodeAlphanumericSegment" /\ an_input.fc1InEffect) =>
        /\ an_res.err = ""
        /\ an_res.result = an_input.text \o Fnc1Rendered(an_input.chars)

----------------------------------------------------------------------------
(* BitMatrix::crop (src/src/common/bit_matrix.rs) *)

RECURSIVE crop_loop(_, _, _, _, _, _)
\* the two loops of crop from cell k of the region on, row by row: new_bm.set indexes the
\* word vector of the new matrix, and an index beyond it panics
crop_loop(m, new_bm, top, left, width, k) ==
    IF k >= width * new_bm.height THEN [panic |-> FALSE, m |-> new_bm]
    ELSE LET y == top + (k \div width)
             x == left + (k % width)
         IN IF ~get(m, x, y) THEN crop_loop(m, new_bm, top, left, width, k + 1)
            ELSE IF get_offset(new_bm, y, x) >= Len(new_bm.bits)
            THEN [panic |-> TRUE, m |-> new_bm]
            ELSE crop_loop(m, set(new_bm, x, y), top, left, width, k + 1)

BitMatrix_crop(m, top, left, height, width) ==
    crop_loop(m, BitMatrix_new(width, height), top, left, width, 0)

\* the matrices cropped: every content of every size up to MaxCropDim
CropMatrices ==
    {[BitMatrix_new(w, ht) EXCEPT !.bits = Words([i \in 1 .. ht |-> rows[i]])] :
        <<w, ht, rows>> \in UNION {{<<w, ht, rows>> : rows \in [1 .. ht -> SUBSET (0 .. (w - 1))]} :
                                     <<w, ht>> \in (1 .. MaxCropDim) \X (1 .. MaxCropDim)}}
\* the regions that fit inside a matrix
CropRegions(m) ==
    {r \in [top : 0 .. (m.height - 1), left : 0 .. (m.width - 1),
            height : 1 .. m.height, width : 1 .. m.width] :
        r.top + r.height <= m.height /\ r.left + r.width <= m.width}

NoCropCall == [op |-> "new", panic |-> FALSE, m |-> BitMatrix_new(1, 1)]

CR_crop ==
    /\ cr_res' = [op |-> "crop"] @@
                    BitMatrix_crop(cr_input.m, cr_input.r.top, cr_input.r.left,
                                   cr_input.r.height, cr_input.r.width)
    /\ UNCHANGED cr_input

CRInit ==
    /\ \E m \in CropMatrices : \E r \in CropRegions(m) : cr_input = [m |-> m, r |-> r]
    /\ cr_res = NoCropCall

CRIdle ==
    /\ cr_input = [m |-> BitMatrix_new(1, 1), r |-> [top |-> 0, left |-> 0, height |-> 1, width |-> 1]]
    /\ cr_res = NoCropCall

CRNext == CR_crop

----------------------------------------------------------------------------
(* BitMatrix::crop properties *)

\* C27: crop of a region inside the matrix does not panic and returns a
\* width x height matrix whose bit (i, j) is the source bit
\* (left + i, top + j).
C27_CropCopiesRegion ==
    cr_res.op = "crop" =>
        /\ ~cr_res.panic
        /\ cr_res.m.width = cr_input.r.width
        /\ cr_res.m.height = cr_input.r.height
        /\ \A i \in 0 .. (cr_input.r.width - 1), j \in 0 .. (cr_input.r.height - 1) :
              get(cr_res.m, i, j) = get(cr_input.m, cr_input.r.left + i, cr_input.r.top + j)

----------------------------------------------------------------------------
(* MaxiCodeReader::extractPureBits (src/src/maxicode/maxi_code_reader.rs) *)

MATRIX_WIDTH == 30
MATRIX_HEIGHT == 33

\* the row of the image sampled for row y of the symbol
extractPureBits_iy(top, height, y) ==
    Min({top + ((y * height + (height \div 2)) \div MATRIX_HEIGHT), height - 1})

\* the column of the image sampled for module (x, y) of the symbol
extractPureBits_ix(left, width, x, y) ==
    left + Min({(x * width + (width \div 2) + (((y % 2) * width) \div 2)) \div MATRIX_WIDTH,
                width - 1})

\* extractPureBits(image): NotFound without a dark pixel, or the 30x33 matrix read off the
\* image, with the coordinates it was read at
extractPureBits(img) ==
    LET enclosingRectangleOption == getEnclosingRectangle(img)
        left == enclosingRectangleOption.rect[1]
        top == enclosingRectangleOption.rect[2]
        width == enclosingRectangleOption.rect[3]
        height == enclosingRectangleOption.rect[4]
        at == [y \in 0 .. (MATRIX_HEIGHT - 1) |->
                  [x \in 0 .. (MATRIX_WIDTH - 1) |->
                      <<extractPureBits_ix(left, width, x, y), extractPureBits_iy(top, height, y)>>]]
    IN IF ~enclosingRectangleOption.some
       THEN [err |-> "NotFound", samples |-> {}, bits |-> <<>>]
       ELSE [err |-> "",
             samples |-> {at[y][x] : y \in 0 .. (MATRIX_HEIGHT - 1), x \in 0 .. (MATRIX_WIDTH - 1)},
             bits |-> [i \in 1 .. MATRIX_HEIGHT |->
                          {x \in 0 .. (MATRIX_WIDTH - 1) :
                              get(img, at[i - 1][x][1], at[i - 1][x][2])}] \o <<>>]

\* the rectangles of dark pixels: anywhere up to MaxMargin from the top and the left
PureRectangles == [left : 0 .. MaxMargin, top : 0 .. MaxMargin,
                   width : 1 .. MaxExtent, height : 1 .. MaxExtent]

\* an image with that rectangle of dark pixels and a white column and row behind it:
\* all of it dark, or its two corners only
PureImage(r, solid) ==
    LET white == BitMatrix_new(r.left + r.width + 1, r.top + r.height + 1)
    IN IF solid THEN setRegion(white, r.left, r.top, r.width, r.height).m
       ELSE set(set(white, r.left, r.top), r.left + r.width - 1, r.top + r.height - 1)

NoPureCall == [op |-> "new", err |-> "", samples |-> {}, bits |-> <<>>]

MX_extractPureBits ==
    /\ mx_res' = [op |-> "extractPureBits"] @@ extractPureBits(PureImage(mx_input.r, mx_input.solid))
    /\ UNCHANGED mx_input

MXInit == mx_input \in [r : PureRectangles, solid : BOOLEAN] /\ mx_res = NoPureCall

MXIdle ==
    /\ mx_input = [r |-> [left |-> 0, top |-> 0, width |-> 1, height |-> 1], solid |-> TRUE]
    /\ mx_res = NoPureCall

MXNext == MX_extractPureBits

----------------------------------------------------------------------------
(* MaxiCodeReader::extractPureBits properties *)

\* C26: every coordinate sampled lies inside the rectangle of the dark
\* pixels, wherever the rectangle is in the image.
C26_SamplesInsideRectangle ==
    mx_res.op = "extractPureBits" =>
        /\ mx_res.err = ""
        /\ \A s \in mx_res.samples :
              /\ mx_input.r.left <= s[1]
              /\ s[1] <= mx_input.r.left + mx_input.r.width - 1
              /\ mx_input.r.top <= s[2]
              /\ s[2] <= mx_input.r.top + mx_input.r.height - 1

----------------------------------------------------------------------------
(* Luma8LuminanceSource (src/src/luma_luma_source.rs) *)

Luma8LuminanceSource_new(source, width, height) ==
    [dimensions |-> <<width, height>>, origin |-> <<0, 0>>, data |-> source,
     inverted |-> FALSE, original_dimension |-> <<width, height>>]

invert_if_should(byte, invert) == IF invert THEN 255 - byte ELSE byte

\* the trait's helper for a whole row: every byte inverted
invert_block_of_bytes(bytes) == [i \in 1 .. Len(bytes) |-> 255 - bytes[i]]

\* slice::chunks_exact: the whole chunks of n elements, a shorter rest left out
chunks_exact(data, n) ==
    [i \in 1 .. (Len(data) \div n) |-> SubSeq(data, (i - 1) * n + 1, i * n)]

RECURSIVE flat_map(_)
flat_map(chunks) == IF chunks = <<>> THEN <<>> ELSE Head(chunks) \o flat_map(Tail(chunks))

get_width(s) == s.dimensions[1]

get_height(s) == s.dimensions[2]

\* the slice data[data_start..data_end] panics when it ends beyond the data
get_row(s, y) ==
    LET chunk_size == s.original_dimension[1]
        row_skip == y + s.origin[2]
        data_start == (chunk_size * row_skip) + s.origin[1]
        data_end == (chunk_size * row_skip) + s.origin[1] + s.dimensions[1]
    IN IF data_end > Len(s.data) THEN [panic |-> TRUE, v |-> <<>>]
       ELSE [panic |-> FALSE,
             v |-> Words(IF s.inverted
                         THEN invert_block_of_bytes(SubSeq(s.data, data_start + 1, data_end))
                         ELSE SubSeq(s.data, data_start + 1, data_end))]

\* one entry from every chunk after the first origin.1 chunks
get_column(s, x) ==
    LET chunks == chunks_exact(s.data, s.original_dimension[1])
        rows == SubSeq(chunks, s.origin[2] + 1, Len(chunks))
    IN IF rows # <<>> /\ s.origin[1] + x >= s.original_dimension[1]
       THEN [panic |-> TRUE, v |-> <<>>]
       ELSE [panic |-> FALSE,
             v |-> Words([i \in 1 .. Len(rows) |->
                            invert_if_should(rows[i][s.origin[1] + x + 1], s.inverted)])]

get_matrix(s) ==
    LET skipped == SubSeq(s.data, s.original_dimension[1] * s.origin[2] + 1, Len(s.data))
        taken == SubSeq(skipped, 1, Min({Len(skipped), s.dimensions[2] * s.original_dimension[1]}))
        chunks == chunks_exact(taken, s.original_dimension[1])
        cut == [i \in 1 .. Len(chunks) |->
                  SubSeq(chunks[i], s.origin[1] + 1,
                         Min({Len(chunks[i]), s.origin[1] + get_width(s)}))]
        flat == flat_map(Words(cut))
    IN [panic |-> FALSE,
        v |-> Words([i \in 1 .. Len(flat) |-> invert_if_should(flat[i], s.inverted)])]

invert(s) == [s EXCEPT !.inverted = ~s.inverted]

Luma8LuminanceSource_crop(s, left, top, width, height) ==
    [s EXCEPT !.dimensions = <<width, height>>,
              !.origin = <<s.origin[1] + left, s.origin[2] + top>>]

\* the images a source is built on: one of every size up to MaxLumaDim, every pixel
\* with a luma value of its own so that a pixel taken from the wrong place shows
LumaImages ==
    {[width |-> w, height |-> ht, source |-> [i \in 1 .. (w * ht) |-> 10 * i]] :
        <<w, ht>> \in (1 .. MaxLumaDim) \X (1 .. MaxLumaDim)}
\* the regions that lie inside the view s
LumaRegions(s) ==
    {r \in [left : 0 .. (get_width(s) - 1), top : 0 .. (get_height(s) - 1),
            width : 1 .. get_width(s), height : 1 .. get_height(s)] :
        r.left + r.width <= get_width(s) /\ r.top + r.height <= get_height(s)}

NoLumaCall == [op |-> "new", arg |-> 0, of |-> Luma8LuminanceSource_new(<<0>>, 1, 1),
               panic |-> FALSE, v |-> <<>>]

LU_crop ==
    /\ \E r \in LumaRegions(lu) :
          lu' = Luma8LuminanceSource_crop(lu, r.left, r.top, r.width, r.height)
    /\ UNCHANGED lu_res

LU_invert ==
    /\ lu' = invert(lu)
    /\ UNCHANGED lu_res

LU_get_row ==
    /\ \E y \in 0 .. (get_height(lu) - 1) :
          lu_res' = [op |-> "get_row", arg |-> y, of |-> lu] @@ get_row(lu, y)
    /\ UNCHANGED lu

LU_get_column ==
    /\ \E x \in 0 .. (get_width(lu) - 1) :
          lu_res' = [op |-> "get_column", arg |-> x, of |-> lu] @@ get_column(lu, x)
    /\ UNCHANGED lu

LU_get_matrix ==
    /\ lu_res' = [op |-> "get_matrix", arg |-> 0, of |-> lu] @@ get_matrix(lu)
    /\ UNCHANGED lu

LUInit ==
    /\ \E i \in LumaImages : lu = Luma8LuminanceSource_new(i.source, i.width, i.height)
    /\ lu_res = NoLumaCall

LUIdle ==
    /\ lu = Luma8LuminanceSource_new(<<0>>, 1, 1)
    /\ lu_res = NoLumaCall

LUNext == LU_crop \/ LU_invert \/ LU_get_row \/ LU_get_column \/ LU_get_matrix

----------------------------------------------------------------------------
(* Luma8LuminanceSource properties *)

\* the pixel of the view s at (x, y): the byte of the original data at
\* (origin.x + x, origin.y + y), inverted when the flag is set
ViewPixel(s, x, y) ==
    invert_if_should(s.data[s.original_dimension[1] * (s.origin[2] + y) + s.origin[1] + x + 1],
                     s.inverted)

\* C28: on every view reached through new, crop and invert the accessors
\* agree: get_row(y) is the get_width() pixels of row y, get_column(x) is
\* the get_height() pixels of column x, and get_matrix() is the
\* get_width() * get_height() pixels of the view row by row.
C28_AccessorsAgree ==
    LET s == lu_res.of
    IN /\ lu_res.op = "get_row" =>
            /\ ~lu_res.panic
            /\ Len(lu_res.v) = get_width(s)
            /\ \A x \in 0 .. (get_width(s) - 1) : lu_res.v[x + 1] = ViewPixel(s, x, lu_res.arg)
       /\ lu_res.op = "get_column" =>
            /\ ~lu_res.panic
            /\ Len(lu_res.v) = get_height(s)
            /\ \A y \in 0 .. (get_height(s) - 1) : lu_res.v[y + 1] = ViewPixel(s, lu_res.arg, y)
       /\ lu_res.op = "get_matrix" =>
            /\ ~lu_res.panic
            /\ Len(lu_res.v) = get_width(s) * get_height(s)
            /\ \A x \in 0 .. (get_width(s) - 1), y \in 0 .. (get_height(s) - 1) :
                  lu_res.v[y * get_width(s) + x + 1] = ViewPixel(s, x, y)

\* the part of C28 about get_row and get_matrix
C28_RowAndMatrixAgree ==
    lu_res.op # "get_column" => C28_AccessorsAgree

\* get_column on a view that ends at the last row of the data
C28_ColumnOfBottomView ==
    (lu_res.op = "get_column"
       /\ lu_res.of.origin[2] + get_height(lu_res.of) = lu_res.of.original_dimension[2])
    => C28_AccessorsAgree

----------------------------------------------------------------------------
(* helpers::detect_in_luma and its variants (src/src/helpers.rs) *)

\* the two assignments on the cloned hints
detect_in_luma_hints(barcode_type, hints) ==
    LET withType == IF barcode_type # "None"
                    THEN [hints EXCEPT !.hasFormats = TRUE, !.formats = <<barcode_type>>]
                    ELSE hints
    IN IF withType.TryHarder = "absent" THEN [withType EXCEPT !.TryHarder = "true"]
       ELSE withType

\* the decode_with_hints call the helper ends in: the reader, the source under the
\* HybridBinarizer of the bitmap, and the hints. The outcome of the helper is the
\* outcome of this call.
detect_in_luma_with_hints(luma, width, height, barcode_type, hints) ==
    [reader |-> "MultiFormatReader",
     source |-> Luma8LuminanceSource_new(luma, width, height),
     hints |-> detect_in_luma_hints(barcode_type, hints)]

detect_in_luma(luma, width, height, barcode_type) ==
    detect_in_luma_with_hints(luma, height, width, barcode_type, DefaultHints)

detect_in_luma_filtered_with_hints(luma, width, height, barcode_type, hints) ==
    [reader |-> "FilteredImageReader",
     source |-> Luma8LuminanceSource_new(luma, width, height),
     hints |-> detect_in_luma_hints(barcode_type, hints)]

detect_in_luma_filtered(luma, width, height, barcode_type) ==
    detect_in_luma_filtered_with_hints(luma, height, width, barcode_type, DefaultHints)

\* Option<BarcodeFormat>
BarcodeTypes == {"None"} \cup InputFormats
\* the hints handed to the *_with_hints helpers
HelperHints == {hs \in Hints : Len(hs.formats) <= 1}

NoHelperCall == [op |-> "none", reader |-> "none",
                 source |-> Luma8LuminanceSource_new(<<0>>, 1, 1), hints |-> DefaultHints]

HL_detect_in_luma ==
    /\ hl_res' = [op |-> "detect_in_luma"] @@
                    detect_in_luma(hl_input.luma, hl_input.width, hl_input.height,
                                   hl_input.barcode_type)
    /\ UNCHANGED hl_input

HL_detect_in_luma_with_hints ==
    /\ hl_res' = [op |-> "detect_in_luma_with_hints"] @@
                    detect_in_luma_with_hints(hl_input.luma, hl_input.width, hl_input.height,
                                              hl_input.barcode_type, hl_input.hints)
    /\ UNCHANGED hl_input

HL_detect_in_luma_filtered ==
    /\ hl_res' = [op |-> "detect_in_luma_filtered"] @@
                    detect_in_luma_filtered(hl_input.luma, hl_input.width, hl_input.height,
                                            hl_input.barcode_type)
    /\ UNCHANGED hl_input

HL_detect_in_luma_filtered_with_hints ==
    /\ hl_res' = [op |-> "detect_in_luma_filtered_with_hints"] @@
                    detect_in_luma_filtered_with_hints(hl_input.luma, hl_input.width,
                                                       hl_input.height, hl_input.barcode_type,
                                                       hl_input.hints)
    /\ UNCHANGED hl_input

HLInit ==
    /\ \E i \in LumaImages, f \in BarcodeTypes, hs \in HelperHints :
          hl_input = [luma |-> i.source, width |-> i.width, height |-> i.height,
                      barcode_type |-> f, hints |-> hs]
    /\ hl_res = NoHelperCall

HLIdle ==
    /\ hl_input = [luma |-> <<0>>, width |-> 1, height |-> 1, barcode_type |-> "None",
                   hints |-> DefaultHints]
    /\ hl_res = NoHelperCall

HLNext ==
    \/ HL_detect_in_luma
    \/ HL_detect_in_luma_with_hints
    \/ HL_detect_in_luma_filtered
    \/ HL_detect_in_luma_filtered_with_hints

----------------------------------------------------------------------------
(* helpers::detect_in_luma properties *)

\* C29: detect_in_luma and detect_in_luma_filtered build the luminance
\* source with width w and height h and end in the call their *_with_hints
\* counterpart makes for the same (luma, w, h, f) and default hints.
C29_HelpersEqualCounterparts ==
    /\ hl_res.op = "detect_in_luma" =>
          /\ hl_res.source.dimensions = <<hl_input.width, hl_input.height>>
          /\ hl_res = [op |-> "detect_in_luma"] @@
                         detect_in_luma_with_hints(hl_input.luma, hl_input.width,
                                                   hl_input.height, hl_input.barcode_type,
                                                   DefaultHints)
    /\ hl_res.op = "detect_in_luma_filtered" =>
          /\ hl_res.source.dimensions = <<hl_input.width, hl_input.height>>
          /\ hl_res = [op |-> "detect_in_luma_filtered"] @@
                         detect_in_luma_filtered_with_hints(hl_input.luma, hl_input.width,
                                                            hl_input.height,
                                                            hl_input.barcode_type, DefaultHints)

\* the same for a square image
C29_SquareImage ==
    hl_input.width = hl_input.height => C29_HelpersEqualCounterparts

----------------------------------------------------------------------------
(* FieldParser::parseFieldsInGeneralPurpose
   (src/src/oned/rss/expanded/decoders/field_parser.rs).
   A string is the sequence of its characters. *)

DataLength_fixed(length) == [variable |-> FALSE, length |-> length]

DataLength_variable(length) == [variable |-> TRUE, length |-> length]

DigitChars == <<"0", "1", "2", "3", "4", "5", "6", "7", "8", "9">>

RECURSIVE Pow10(_)
Pow10(n) == IF n = 0 THEN 1 ELSE 10 * Pow10(n - 1)

\* the key of w digits written for the number i ("00".into(), i.to_string())
Str(i, w) == [p \in 1 .. w |-> DigitChars[((i \div Pow10(w - p)) % 10) + 1]]

TWO_DIGIT_DATA_LENGTH ==
    [k \in {Str(0, 2)} |-> DataLength_fixed(18)]
    @@ [k \in {Str(1, 2)} |-> DataLength_fixed(14)]
    @@ [k \in {Str(2, 2)} |-> DataLength_fixed(14)]
    @@ [k \in {Str(10, 2)} |-> DataLength_variable(20)]
    @@ [k \in {Str(11, 2)} |-> DataLength_fixed(6)]
    @@ [k \in {Str(12, 2)} |-> DataLength_fixed(6)]
    @@ [k \in {Str(13, 2)} |-> DataLength_fixed(6)]
    @@ [k \in {Str(15, 2)} |-> DataLength_fixed(6)]
    @@ [k \in {Str(17, 2)} |-> DataLength_fixed(6)]
    @@ [k \in {Str(20, 2)} |-> DataLength_fixed(2)]
    @@ [k \in {Str(21, 2)} |-> DataLength_variable(20)]
    @@ [k \in {Str(22, 2)} |-> DataLength_variable(29)]
    @@ [k \in {Str(30, 2)} |-> DataLength_variable(8)]
    @@ [k \in {Str(37, 2)} |-> DataLength_variable(8)]
    @@ [k \in {Str(i, 2) : i \in 90 .. 99} |-> DataLength_variable(30)]

THREE_DIGIT_DATA_LENGTH ==
    [k \in {Str(240, 3)} |-> DataLength_variable(30)]
    @@ [k \in {Str(241, 3)} |-> DataLength_variable(30)]
    @@ [k \in {Str(242, 3)} |-> DataLength_variable(6)]
    @@ [k \in {Str(250, 3)} |-> DataLength_variable(30)]
    @@ [k \in {Str(251, 3)} |-> DataLength_variable(30)]
    @@ [k \in {Str(253, 3)} |-> DataLength_variable(17)]
    @@ [k \in {Str(254, 3)} |-> DataLength_variable(20)]
    @@ [k \in {Str(400, 3)} |-> DataLength_variable(30)]
    @@ [k \in {Str(401, 3)} |-> DataLength_variable(30)]
    @@ [k \in {Str(402, 3)} |-> DataLength_fixed(17)]
    @@ [k \in {Str(403, 3)} |-> DataLength_variable(30)]
    @@ [k \in {Str(410, 3)} |-> DataLength_fixed(13)]
    @@ [k \in {Str(411, 3)} |-> DataLength_fixed(13)]
    @@ [k \in {Str(412, 3)} |-> DataLength_fixed(13)]
    @@ [k \in {Str(413, 3)} |-> DataLength_fixed(13)]
    @@ [k \in {Str(414, 3)} |-> DataLength_fixed(13)]
    @@ [k \in {Str(420, 3)} |-> DataLength_variable(20)]
    @@ [k \in {Str(421, 3)} |-> DataLength_variable(15)]
    @@ [k \in {Str(422, 3)} |-> DataLength_fixed(3)]
    @@ [k \in {Str(423, 3)} |-> DataLength_variable(15)]
    @@ [k \in {Str(424, 3)} |-> DataLength_fixed(3)]
    @@ [k \in {Str(425, 3)} |-> DataLength_fixed(3)]
    @@ [k \in {Str(426, 3)} |-> DataLength_fixed(3)]

THREE_DIGIT_PLUS_DIGIT_DATA_LENGTH ==
    [k \in {Str(i, 3) : i \in 310 .. 316} |-> DataLength_fixed(6)]
    @@ [k \in {Str(i, 3) : i \in 320 .. 336} |-> DataLength_fixed(6)]
    @@ [k \in {Str(i, 3) : i \in 340 .. 357} |-> DataLength_fixed(6)]
    @@ [k \in {Str(i, 3) : i \in 360 .. 369} |-> DataLength_fixed(6)]
    @@ [k \in {Str(390, 3)} |-> DataLength_variable(15)]
    @@ [k \in {Str(391, 3)} |-> DataLength_variable(18)]
    @@ [k \in {Str(392, 3)} |-> DataLength_variable(15)]
    @@ [k \in {Str(393, 3)} |-> DataLength_variable(18)]
    @@ [k \in {Str(703, 3)} |-> DataLength_variable(30)]

FOUR_DIGIT_DATA_LENGTH ==
    [k \in {Str(7001, 4)} |-> DataLength_fixed(13)]
    @@ [k \in {Str(7002, 4)} |-> DataLength_variable(30)]
    @@ [k \in {Str(7003, 4)} |-> DataLength_fixed(10)]
    @@ [k \in {Str(8001, 4)} |-> DataLength_fixed(14)]
    @@ [k \in {Str(8002, 4)} |-> DataLength_variable(20)]
    @@ [k \in {Str(8003, 4)} |-> DataLength_variable(30)]
    @@ [k \in {Str(8004, 4)} |-> DataLength_variable(30)]
    @@ [k \in {Str(8005, 4)} |-> DataLength_fixed(6)]
    @@ [k \in {Str(8006, 4)} |-> DataLength_fixed(18)]
    @@ [k \in {Str(8007, 4)} |-> DataLength_variable(30)]
    @@ [k \in {Str(8008, 4)} |-> DataLength_variable(12)]
    @@ [k \in {Str(8018, 4)} |-> DataLength_fixed(18)]
    @@ [k \in {Str(8020, 4)} |-> DataLength_variable(25)]
    @@ [k \in {Str(8100, 4)} |-> DataLength_fixed(6)]
    @@ [k \in {Str(8101, 4)} |-> DataLength_fixed(10)]
    @@ [k \in {Str(8102, 4)} |-> DataLength_fixed(2)]
    @@ [k \in {Str(8110, 4)} |-> DataLength_variable(70)]
    @@ [k \in {Str(8200, 4)} |-> DataLength_variable(70)]

\* rawInformation.chars().take(n) and .skip(n)
chars_take(s, n) == SubSeq(s, 1, Min({n, Len(s)}))

chars_skip(s, n) == SubSeq(s, n + 1, Len(s))

FieldOk(s) == [err |-> FALSE, v |-> s]

FieldErr == [err |-> TRUE, v |-> <<>>]

\* format!("({ai}){field}") followed by the parsed rest
field_result(ai, field, parsedAI) ==
    IF parsedAI.err THEN FieldErr
    ELSE FieldOk(<<"(">> \o ai \o <<")">> \o field \o parsedAI.v)

RECURSIVE parseFieldsInGeneralPurpose(_), processFixedAI(_, _, _), processVariableAI(_, _, _)

processFixedAI(aiSize, fieldSize, rawInformation) ==
    IF Len(rawInformation) < aiSize THEN FieldErr
    ELSE IF Len(rawInformation) < aiSize + fieldSize THEN FieldErr
    ELSE field_result(chars_take(rawInformation, aiSize),
                      chars_take(chars_skip(rawInformation, aiSize), fieldSize),
                      parseFieldsInGeneralPurpose(chars_skip(rawInformation, aiSize + fieldSize)))

\* rawInformation.chars().skip(aiSize).take(maxSize)
processVariableAI_field(aiSize, maxSize, rawInformation) ==
    chars_take(chars_skip(rawInformation, aiSize), maxSize)

\* maxSize
processVariableAI_maxSize(aiSize, variableFieldSize, rawInformation) ==
    Min({Len(rawInformation), aiSize + variableFieldSize})

processVariableAI(aiSize, variableFieldSize, rawInformation) ==
    field_result(chars_take(rawInformation, aiSize),
                 processVariableAI_field(aiSize,
                     processVariableAI_maxSize(aiSize, variableFieldSize, rawInformation),
                     rawInformation),
                 parseFieldsInGeneralPurpose(
                     chars_skip(rawInformation,
                         processVariableAI_maxSize(aiSize, variableFieldSize, rawInformation))))

\* the two returns on a table entry
process_AI(aiSize, dl, rawInformation) ==
    IF dl.variable THEN processVariableAI(aiSize, dl.length, rawInformation)
    ELSE processFixedAI(aiSize, dl.length, rawInformation)

parseFieldsInGeneralPurpose(rawInformation) ==
    IF rawInformation = <<>> THEN FieldOk(<<>>)
    ELSE IF Len(rawInformation) < 2 THEN FieldErr
    ELSE IF chars_take(rawInformation, 2) \in DOMAIN TWO_DIGIT_DATA_LENGTH
    THEN process_AI(2, TWO_DIGIT_DATA_LENGTH[chars_take(rawInformation, 2)], rawInformation)
    ELSE IF Len(rawInformation) < 3 THEN FieldErr
    ELSE IF chars_take(rawInformation, 3) \in DOMAIN THREE_DIGIT_DATA_LENGTH
    THEN process_AI(3, THREE_DIGIT_DATA_LENGTH[chars_take(rawInformation, 3)], rawInformation)
    ELSE IF Len(rawInformation) < 4 THEN FieldErr
    ELSE IF chars_take(rawInformation, 3) \in DOMAIN THREE_DIGIT_PLUS_DIGIT_DATA_LENGTH
    THEN process_AI(4, THREE_DIGIT_PLUS_DIGIT_DATA_LENGTH[chars_take(rawInformation, 3)],
                    rawInformation)
    ELSE IF chars_take(rawInformation, 4) \in DOMAIN FOUR_DIGIT_DATA_LENGTH
    THEN process_AI(4, FOUR_DIGIT_DATA_LENGTH[chars_take(rawInformation, 4)], rawInformation)
    ELSE FieldErr

\* the AIs of the fields parsed: of every table, fixed and variable
FieldAIs == {Str(15, 2), Str(20, 2), Str(30, 2), Str(242, 3), Str(422, 3),
             Str(3103, 4), Str(3920, 4), Str(8005, 4), Str(8008, 4)}
\* the table entry of a known AI
AIDataLength(ai) ==
    IF ai \in DOMAIN TWO_DIGIT_DATA_LENGTH THEN TWO_DIGIT_DATA_LENGTH[ai]
    ELSE IF ai \in DOMAIN THREE_DIGIT_DATA_LENGTH THEN THREE_DIGIT_DATA_LENGTH[ai]
    ELSE IF Len(ai) = 4 /\ SubSeq(ai, 1, 3) \in DOMAIN THREE_DIGIT_PLUS_DIGIT_DATA_LENGTH
    THEN THREE_DIGIT_PLUS_DIGIT_DATA_LENGTH[SubSeq(ai, 1, 3)]
    ELSE FOUR_DIGIT_DATA_LENGTH[ai]
\* the value of n characters: the digits 1, 2, ... in turn
FieldValue(n) == [p \in 1 .. n |-> DigitChars[(p % 10) + 1]]
\* the value lengths that fit an AI's rule: the tabled length of a fixed AI; one
\* character, one less than the maximum and the maximum of a variable AI
FieldLengths(ai) ==
    IF AIDataLength(ai).variable
    THEN {1, AIDataLength(ai).length - 1, AIDataLength(ai).length}
    ELSE {AIDataLength(ai).length}
Fields == UNION {{[ai |-> ai, value |-> FieldValue(n)] : n \in FieldLengths(ai)} : ai \in FieldAIs}
\* a variable value shorter than its maximum is the last field
FieldLists ==
    {fs \in SeqsUpTo(Fields, MaxFields) :
        \A i \in 1 .. (Len(fs) - 1) :
            AIDataLength(fs[i].ai).variable
               => Len(fs[i].value) = AIDataLength(fs[i].ai).length}

RECURSIVE Concatenation(_)
\* AI1 v1 AI2 v2 ...
Concatenation(fs) ==
    IF fs = <<>> THEN <<>> ELSE Head(fs).ai \o Head(fs).value \o Concatenation(Tail(fs))

RECURSIVE Parenthesised(_)
\* (AI1)v1(AI2)v2...
Parenthesised(fs) ==
    IF fs = <<>> THEN <<>>
    ELSE <<"(">> \o Head(fs).ai \o <<")">> \o Head(fs).value \o Parenthesised(Tail(fs))

NoFieldCall == [op |-> "none", err |-> FALSE, v |-> <<>>]

FP_parseFieldsInGeneralPurpose ==
    /\ fp_res' = [op |-> "parseFieldsInGeneralPurpose"] @@
                    parseFieldsInGeneralPurpose(Concatenation(fp_input))
    /\ UNCHANGED fp_input

FPInit ==
    /\ fp_input \in FieldLists
    /\ fp_res = NoFieldCall

FPIdle ==
    /\ fp_input = <<>>
    /\ fp_res = NoFieldCall

FPNext == FP_parseFieldsInGeneralPurpose

----------------------------------------------------------------------------
(* FieldParser properties *)

\* C21: for a sequence of fields of known AIs with values that fit the AI's
\* rule, parseFieldsInGeneralPurpose of AI1 v1 AI2 v2 ... returns
\* (AI1)v1(AI2)v2...: without the parentheses the output is the input.
C21_FieldsParenthesised ==
    fp_res.op = "parseFieldsInGeneralPurpose" =>
        /\ ~fp_res.err
        /\ fp_res.v = Parenthesised(fp_input)
        /\ SelectSeq(fp_res.v, LAMBDA c : c \notin {"(", ")"}) = Concatenation(fp_input)

\* the same when no variable-length field is followed by another field
C21_VariableFieldLast ==
    (\A i \in 1 .. (Len(fp_input) - 1) : ~AIDataLength(fp_input[i].ai).variable)
    => C21_FieldsParenthesised

----------------------------------------------------------------------------
(* VINResultParser (src/src/client/result/VINResultParser.rs).
   A string is the sequence of its characters. *)

UpperChars == <<"A", "B", "C", "D", "E", "F", "G", "H", "I", "J", "K", "L", "M",
                "N", "O", "P", "Q", "R", "S", "T", "U", "V", "W", "X", "Y", "Z">>

\* c as u8, for the characters of the texts parsed
as_u8(c) ==
    IF \E i \in 1 .. 10 : DigitChars[i] = c
    THEN 47 + (CHOOSE i \in 1 .. 10 : DigitChars[i] = c)
    ELSE IF \E i \in 1 .. 26 : UpperChars[i] = c
    THEN 64 + (CHOOSE i \in 1 .. 26 : UpperChars[i] = c)
    ELSE IF c = " " THEN 32
    ELSE IF c = "-" THEN 45
    ELSE IF c = "_" THEN 95
    ELSE 97

\* (lo..=hi).contains(&c)
in_range(c, lo, hi) == as_u8(lo) <= as_u8(c) /\ as_u8(c) <= as_u8(hi)

\* the character with code n
as_char(n) == IF n <= 57 THEN DigitChars[n - 47] ELSE UpperChars[n - 64]

RECURSIVE trim_start(_)
trim_start(s) == IF s # <<>> /\ Head(s) = " " THEN trim_start(Tail(s)) ELSE s

RECURSIVE trim_end(_)
trim_end(s) ==
    IF s # <<>> /\ s[Len(s)] = " " THEN trim_end(SubSeq(s, 1, Len(s) - 1)) ELSE s

\* str::trim
trim(s) == trim_end(trim_start(s))

\* IOQ_MATCHER.replace_all(text, "")
IOQ_replace_all(s) == SelectSeq(s, LAMBDA c : c \notin {"I", "O", "Q"})

\* AZ09_MATCHER.find(text) is Some: 17 characters of [A-Z0-9] in a row somewhere in text
AZ09_find(s) ==
    \E i \in 1 .. (Len(s) - 16) :
        \A j \in i .. (i + 16) : in_range(s[j], "A", "Z") \/ in_range(s[j], "0", "9")

VinOk(v) == [err |-> FALSE, v |-> v]

VinErr == [err |-> TRUE, v |-> 0]

vin_char_value(c) ==
    IF in_range(c, "A", "I") THEN VinOk((as_u8(c) - as_u8("A")) + 1)
    ELSE IF in_range(c, "J", "R") THEN VinOk((as_u8(c) - as_u8("J")) + 1)
    ELSE IF in_range(c, "S", "Z") THEN VinOk((as_u8(c) - as_u8("S")) + 2)
    ELSE IF in_range(c, "0", "9") THEN VinOk(as_u8(c) - as_u8("0"))
    ELSE VinErr

vin_position_weight(position) ==
    IF position \in 1 .. 7 THEN VinOk(9 - position)
    ELSE IF position = 8 THEN VinOk(10)
    ELSE IF position = 9 THEN VinOk(0)
    ELSE IF position \in 10 .. 17 THEN VinOk(19 - position)
    ELSE VinErr

\* the mutant of check_char: remainder 10 written as a digit
check_char_digits(remainder) ==
    IF remainder \in 0 .. 10 THEN VinOk(as_char(as_u8("0") + (remainder % 10)))
    ELSE VinErr

check_char(remainder) ==
    IF remainder \in 0 .. 9 THEN VinOk(as_char(as_u8("0") + remainder))
    ELSE IF remainder = 10 THEN VinOk("X")
    ELSE VinErr

RECURSIVE check_checksum_sum(_, _, _)
\* the loop of check_checksum from index i on, with the sum so far
check_checksum_sum(vin, i, sum) ==
    IF i >= Len(vin) THEN VinOk(sum)
    ELSE IF vin_position_weight(i + 1).err \/ vin_char_value(vin[i + 1]).err THEN VinErr
    ELSE check_checksum_sum(vin, i + 1,
                            sum + vin_position_weight(i + 1).v * vin_char_value(vin[i + 1]).v)

\* what follows the loop
check_checksum_compare(vin, sum) ==
    IF sum.err \/ Len(vin) < 9 THEN VinErr
    ELSE IF check_char(sum.v % 11).err THEN VinErr
    ELSE VinOk(vin[9] = check_char(sum.v % 11).v)

check_checksum(vin) == check_checksum_compare(vin, check_checksum_sum(vin, 0, 0))

model_year(c) ==
    IF in_range(c, "E", "H") THEN VinOk((as_u8(c) - as_u8("E")) + 1984)
    ELSE IF in_range(c, "J", "N") THEN VinOk((as_u8(c) - as_u8("J")) + 1988)
    ELSE IF c = "P" THEN VinOk(1993)
    ELSE IF in_range(c, "R", "T") THEN VinOk((as_u8(c) - as_u8("R")) + 1994)
    ELSE IF in_range(c, "V", "Y") THEN VinOk((as_u8(c) - as_u8("V")) + 1997)
    ELSE IF in_range(c, "1", "9") THEN VinOk((as_u8(c) - as_u8("1")) + 2001)
    ELSE IF in_range(c, "A", "D") THEN VinOk((as_u8(c) - as_u8("A")) + 2010)
    ELSE VinErr

\* country_code(wmi).unwrap_or("")
country_code(wmi) ==
    IF Len(wmi) < 2 THEN ""
    ELSE LET c1 == wmi[1]
             c2 == wmi[2]
         IN IF c1 \in {"1", "4", "5"} THEN "US"
            ELSE IF c1 = "2" THEN "CA"
            ELSE IF c1 = "3" /\ in_range(c2, "A", "W") THEN "MX"
            ELSE IF c1 = "9" /\ (in_range(c2, "A", "E") \/ in_range(c2, "3", "9")) THEN "BR"
            ELSE IF c1 = "J" /\ in_range(c2, "A", "T") THEN "JP"
            ELSE IF c1 = "K" /\ in_range(c2, "L", "R") THEN "KO"
            ELSE IF c1 = "L" THEN "CN"
            ELSE IF c1 = "M" /\ in_range(c2, "A", "E") THEN "IN"
            ELSE IF c1 = "S" /\ in_range(c2, "A", "M") THEN "UK"
            ELSE IF c1 = "S" /\ in_range(c2, "N", "T") THEN "DE"
            ELSE IF c1 = "V" /\ in_range(c2, "F", "R") THEN "FR"
            ELSE IF c1 = "V" /\ in_range(c2, "S", "W") THEN "ES"
            ELSE IF c1 = "W" THEN "DE"
            ELSE IF c1 = "X" /\ (c2 = "0" \/ in_range(c2, "3", "9")) THEN "RU"
            ELSE IF c1 = "Z" /\ in_range(c2, "A", "R") THEN "IT"
            ELSE ""

VinNone == [panic |-> FALSE, some |-> FALSE, vin |-> <<>>, countryCode |-> "", modelYear |-> 0]

VinPanic == [VinNone EXCEPT !.panic = TRUE]

\* parse after the checksum: a slice of raw_text beyond its end panics
VINResultParser_parse_fields(raw_text) ==
    IF Len(raw_text) < 3 THEN VinPanic
    ELSE IF Len(raw_text) < 17 THEN VinPanic
    ELSE IF model_year(IF Len(raw_text) > 9 THEN raw_text[10] ELSE "_").err THEN VinNone
    ELSE [panic |-> FALSE, some |-> TRUE, vin |-> raw_text,
          countryCode |-> country_code(SubSeq(raw_text, 1, 3)),
          modelYear |-> model_year(raw_text[10]).v]

\* parse from raw_text on
VINResultParser_parse_text(raw_text) ==
    IF ~AZ09_find(raw_text) THEN VinNone
    ELSE IF check_checksum(raw_text).err \/ ~check_checksum(raw_text).v THEN VinNone
    ELSE VINResultParser_parse_fields(raw_text)

VINResultParser_parse(result) ==
    IF result.format # "CODE_39" THEN VinNone
    ELSE VINResultParser_parse_text(IOQ_replace_all(trim(result.text)))

\* the texts of the results parsed: a VIN with the check character X, one with a digit
\* as check character, one with a good check character and the year code U ...
VinBases == {<<"1", "M", "8", "G", "D", "M", "9", "A", "X", "K", "P", "0", "4", "2", "7", "8", "8">>,
             <<"1", "1", "1", "1", "1", "1", "1", "1", "1", "1", "1", "1", "1", "1", "1", "1", "1">>,
             <<"1", "1", "1", "1", "1", "1", "1", "1", "6", "U", "1", "1", "1", "1", "1", "1", "1">>}
\* ... and what up to MaxEdits edits make of them: a character replaced, inserted or deleted
VinEdits ==
    {[kind |-> "replace", at |-> p, c |-> c] : p \in 1 .. 17, c \in {"0", "A", "a"}}
    \cup {[kind |-> "insert", at |-> p, c |-> c] : p \in {0, 9, 17}, c \in {"O", " ", "7"}}
    \cup {[kind |-> "delete", at |-> p, c |-> ""] : p \in {1, 9, 17}}
VinEdit(s, e) ==
    IF e.at > Len(s) THEN s
    ELSE IF e.kind = "replace" THEN [s EXCEPT ![e.at] = e.c]
    ELSE IF e.kind = "insert" THEN SubSeq(s, 1, e.at) \o <<e.c>> \o SubSeq(s, e.at + 1, Len(s))
    ELSE SubSeq(s, 1, e.at - 1) \o SubSeq(s, e.at + 1, Len(s))
RECURSIVE VinEdited(_, _)
VinEdited(s, es) == IF es = <<>> THEN s ELSE VinEdited(VinEdit(s, Head(es)), Tail(es))
VinTexts == {VinEdited(b, es) : b \in VinBases, es \in SeqsUpTo(VinEdits, MaxEdits)}
VinFormats == {"CODE_39", "QR_CODE"}

NoVinCall == [op |-> "none"] @@ VinNone

VIN_parse ==
    /\ vin_res' = [op |-> "parse"] @@ VINResultParser_parse(vin_input)
    /\ UNCHANGED vin_input

VINInit ==
    /\ \E t \in VinTexts, f \in VinFormats : vin_input = [format |-> f, text |-> t]
    /\ vin_res = NoVinCall

VINIdle ==
    /\ vin_input = [format |-> "QR_CODE", text |-> <<>>]
    /\ vin_res = NoVinCall

VINNext == VIN_parse

----------------------------------------------------------------------------
(* VINResultParser properties *)

\* the position weights of a VIN
VinWeights == <<8, 7, 6, 5, 4, 3, 2, 10, 0, 9, 8, 7, 6, 5, 4, 3, 2>>

RECURSIVE WeightedSum(_, _)
\* the weighted sum of the first n characters of a VIN
WeightedSum(vin, n) ==
    IF n = 0 THEN 0 ELSE WeightedSum(vin, n - 1) + VinWeights[n] * vin_char_value(vin[n]).v

\* the check character of a sum: the remainder mod 11, 10 written as X
CheckCharacter(sum) == IF sum % 11 = 10 THEN "X" ELSE DigitChars[(sum % 11) + 1]

\* the model-year codes
ModelYearCodes == {"A", "B", "C", "D", "E", "F", "G", "H", "J", "K", "L", "M", "N", "P",
                   "R", "S", "T", "V", "W", "X", "Y",
                   "1", "2", "3", "4", "5", "6", "7", "8", "9"}

\* the text is a VIN: trimmed and without I, O and Q it is 17 characters of
\* [A-Z0-9], the 9th the check character, the 10th a model-year code
IsVin(text) ==
    LET vin == SelectSeq(trim(text), LAMBDA c : c \notin {"I", "O", "Q"})
    IN /\ Len(vin) = 17
       /\ \A i \in 1 .. 17 : vin[i] \in Range(DigitChars) \cup Range(UpperChars)
       /\ vin[9] = CheckCharacter(WeightedSum(vin, 17))
       /\ vin[10] \in ModelYearCodes

\* C22: parse returns a VIN result iff the format is CODE_39 and the text,
\* trimmed and without I, O and Q, is 17 characters of [A-Z0-9] with the
\* check character in 9th and a model-year code in 10th place; otherwise it
\* returns None, and it never panics.
C22_VinIffWellFormed ==
    vin_res.op = "parse" =>
        /\ ~vin_res.panic
        /\ vin_res.some <=> (vin_input.format = "CODE_39" /\ IsVin(vin_input.text))

\* the VIN 1M8GDM9AXKP042788 of a CODE_39 result is parsed: country US, model year 1989
C22_Witness ==
    /\ vin_res.op = "parse"
    /\ vin_res.some
    /\ vin_input.text = <<"1", "M", "8", "G", "D", "M", "9", "A", "X", "K", "P", "0", "4", "2",
                          "7", "8", "8">>
    /\ vin_res.countryCode = "US"
    /\ vin_res.modelYear = 1989

----------------------------------------------------------------------------
DispatchInit ==
    /\ kind \in {"MFR", "MUMFR"}
    /\ h \in Hints
    /\ image \in Images
    /\ flipped = FALSE
    /\ mfr_hints = DefaultHints
    /\ mfr_readers = <<>>
    /\ mu_hints = DefaultHints
    /\ possible_formats = <<>>
    /\ try_harder = FALSE
    /\ supplied = DefaultHints
    /\ call = NoCall

BMIdle == bm = BitMatrix_new(1, 1) /\ bm_res = "new"

DispatchIdle ==
    /\ kind = "MFR"
    /\ h = DefaultHints
    /\ image = [syms |-> {}, failKind |-> "NotFound"]
    /\ flipped = FALSE
    /\ mfr_hints = DefaultHints
    /\ mfr_readers = <<>>
    /\ mu_hints = DefaultHints
    /\ possible_formats = <<>>
    /\ try_harder = FALSE
    /\ supplied = DefaultHints
    /\ call = NoCall

Init ==
    /\ DispatchInit
    /\ BMIdle
    /\ BSIdle
    /\ PTIdle
    /\ GSIdle
    /\ AZIdle
    /\ QRIdle
    /\ RSSIdle
    /\ BQIdle
    /\ RDIdle
    /\ ANIdle
    /\ CRIdle
    /\ MXIdle
    /\ LUIdle
    /\ HLIdle
    /\ FPIdle
    /\ VINIdle

\* the variables of the components a dispatcher call leaves alone
idle_vars == <<bm_vars, bs_vars, pt_vars, gs_vars, az_vars, qr_vars, rss_vars, bq_vars, rd_vars, an_vars, cr_vars, mx_vars, lu_vars, hl_vars, fp_vars, vin_vars>>

Next ==
    \/ MFR_set_ints /\ UNCHANGED idle_vars
    \/ MFR_decode /\ UNCHANGED idle_vars
    \/ MFR_decode_with_hints /\ UNCHANGED idle_vars
    \/ MFR_decode_with_state /\ UNCHANGED idle_vars
    \/ MUMFR_set_hints /\ UNCHANGED idle_vars
    \/ MUMFR_decode /\ UNCHANGED idle_vars
    \/ MUMFR_decode_with_hints /\ UNCHANGED idle_vars
    \/ MUMFR_decode_with_state /\ UNCHANGED idle_vars

Spec == Init /\ [][Next]_vars

InitBM ==
    /\ BMInit
    /\ DispatchIdle
    /\ BSIdle
    /\ PTIdle
    /\ GSIdle
    /\ AZIdle
    /\ QRIdle
    /\ RSSIdle
    /\ BQIdle
    /\ RDIdle
    /\ ANIdle
    /\ CRIdle
    /\ MXIdle
    /\ LUIdle
    /\ HLIdle
    /\ FPIdle
    /\ VINIdle

NextBM == BMNext /\ UNCHANGED <<dispatch_vars, bs_vars, pt_vars, gs_vars, az_vars, qr_vars, rss_vars, bq_vars, rd_vars, an_vars, cr_vars, mx_vars, lu_vars, hl_vars, fp_vars, vin_vars>>

SpecBM == InitBM /\ [][NextBM]_vars

InitBS ==
    /\ BSInit
    /\ DispatchIdle
    /\ BMIdle
    /\ PTIdle
    /\ GSIdle
    /\ AZIdle
    /\ QRIdle
    /\ RSSIdle
    /\ BQIdle
    /\ RDIdle
    /\ ANIdle
    /\ CRIdle
    /\ MXIdle
    /\ LUIdle
    /\ HLIdle
    /\ FPIdle
    /\ VINIdle

NextBS == BSNext /\ UNCHANGED <<dispatch_vars, bm_vars, pt_vars, gs_vars, az_vars, qr_vars, rss_vars, bq_vars, rd_vars, an_vars, cr_vars, mx_vars, lu_vars, hl_vars, fp_vars, vin_vars>>

SpecBS == InitBS /\ [][NextBS]_vars

InitPT ==
    /\ PTInit
    /\ DispatchIdle
    /\ BMIdle
    /\ BSIdle
    /\ GSIdle
    /\ AZIdle
    /\ QRIdle
    /\ RSSIdle
    /\ BQIdle
    /\ RDIdle
    /\ ANIdle
    /\ CRIdle
    /\ MXIdle
    /\ LUIdle
    /\ HLIdle
    /\ FPIdle
    /\ VINIdle

NextPT == PTNext /\ UNCHANGED <<dispatch_vars, bm_vars, bs_vars, gs_vars, az_vars, qr_vars, rss_vars, bq_vars, rd_vars, an_vars, cr_vars, mx_vars, lu_vars, hl_vars, fp_vars, vin_vars>>

SpecPT == InitPT /\ [][NextPT]_vars

InitGS ==
    /\ GSInit
    /\ DispatchIdle
    /\ BMIdle
    /\ BSIdle
    /\ PTIdle
    /\ AZIdle
    /\ QRIdle
    /\ RSSIdle
    /\ BQIdle
    /\ RDIdle
    /\ ANIdle
    /\ CRIdle
    /\ MXIdle
    /\ LUIdle
    /\ HLIdle
    /\ FPIdle
    /\ VINIdle

NextGS == GSNext /\ UNCHANGED <<dispatch_vars, bm_vars, bs_vars, pt_vars, az_vars, qr_vars, rss_vars, bq_vars, rd_vars, an_vars, cr_vars, mx_vars, lu_vars, hl_vars, fp_vars, vin_vars>>

SpecGS == InitGS /\ [][NextGS]_vars

InitAZ ==
    /\ AZInit
    /\ DispatchIdle
    /\ BMIdle
    /\ BSIdle
    /\ PTIdle
    /\ GSIdle
    /\ QRIdle
    /\ RSSIdle
    /\ BQIdle
    /\ RDIdle
    /\ ANIdle
    /\ CRIdle
    /\ MXIdle
    /\ LUIdle
    /\ HLIdle
    /\ FPIdle
    /\ VINIdle

NextAZ == AZNext /\ UNCHANGED <<dispatch_vars, bm_vars, bs_vars, pt_vars, gs_vars, qr_vars, rss_vars, bq_vars, rd_vars, an_vars, cr_vars, mx_vars, lu_vars, hl_vars, fp_vars, vin_vars>>

SpecAZ == InitAZ /\ [][NextAZ]_vars

InitQR ==
    /\ QRInit
    /\ DispatchIdle
    /\ BMIdle
    /\ BSIdle
    /\ PTIdle
    /\ GSIdle
    /\ AZIdle
    /\ RSSIdle
    /\ BQIdle
    /\ RDIdle
    /\ ANIdle
    /\ CRIdle
    /\ MXIdle
    /\ LUIdle
    /\ HLIdle
    /\ FPIdle
    /\ VINIdle

NextQR == QRNext /\ UNCHANGED <<dispatch_vars, bm_vars, bs_vars, pt_vars, gs_vars, az_vars, rss_vars, bq_vars, rd_vars, an_vars, cr_vars, mx_vars, lu_vars, hl_vars, fp_vars, vin_vars>>

SpecQR == InitQR /\ [][NextQR]_vars

InitRSS ==
    /\ RSSInit
    /\ DispatchIdle
    /\ BMIdle
    /\ BSIdle
    /\ PTIdle
    /\ GSIdle
    /\ AZIdle
    /\ QRIdle
    /\ BQIdle
    /\ RDIdle
    /\ ANIdle
    /\ CRIdle
    /\ MXIdle
    /\ LUIdle
    /\ HLIdle
    /\ FPIdle
    /\ VINIdle

NextRSS == RSSNext /\ UNCHANGED <<dispatch_vars, bm_vars, bs_vars, pt_vars, gs_vars, az_vars, qr_vars, bq_vars, rd_vars, an_vars, cr_vars, mx_vars, lu_vars, hl_vars, fp_vars, vin_vars>>

SpecRSS == InitRSS /\ [][NextRSS]_vars

InitBQ ==
    /\ BQInit
    /\ DispatchIdle
    /\ BMIdle
    /\ BSIdle
    /\ PTIdle
    /\ GSIdle
    /\ AZIdle
    /\ QRIdle
    /\ RSSIdle
    /\ RDIdle
    /\ ANIdle
    /\ CRIdle
    /\ MXIdle
    /\ LUIdle
    /\ HLIdle
    /\ FPIdle
    /\ VINIdle

NextBQ == BQNext /\ UNCHANGED <<dispatch_vars, bm_vars, bs_vars, pt_vars, gs_vars, az_vars, qr_vars, rss_vars, rd_vars, an_vars, cr_vars, mx_vars, lu_vars, hl_vars, fp_vars, vin_vars>>

SpecBQ == InitBQ /\ [][NextBQ]_vars

InitRD ==
    /\ RDInit
    /\ DispatchIdle
    /\ BMIdle
    /\ BSIdle
    /\ PTIdle
    /\ GSIdle
    /\ AZIdle
    /\ QRIdle
    /\ RSSIdle
    /\ BQIdle
    /\ ANIdle
    /\ CRIdle
    /\ MXIdle
    /\ LUIdle
    /\ HLIdle
    /\ FPIdle
    /\ VINIdle

NextRD == RDNext /\ UNCHANGED <<dispatch_vars, bm_vars, bs_vars, pt_vars, gs_vars, az_vars, qr_vars, rss_vars, bq_vars, an_vars, cr_vars, mx_vars, lu_vars, hl_vars, fp_vars, vin_vars>>

SpecRD == InitRD /\ [][NextRD]_vars

InitAN ==
    /\ ANInit
    /\ DispatchIdle
    /\ BMIdle
    /\ BSIdle
    /\ PTIdle
    /\ GSIdle
    /\ AZIdle
    /\ QRIdle
    /\ RSSIdle
    /\ BQIdle
    /\ RDIdle
    /\ CRIdle
    /\ MXIdle
    /\ LUIdle
    /\ HLIdle
    /\ FPIdle
    /\ VINIdle

NextAN == ANNext /\ UNCHANGED <<dispatch_vars, bm_vars, bs_vars, pt_vars, gs_vars, az_vars, qr_vars, rss_vars, bq_vars, rd_vars, cr_vars, mx_vars, lu_vars, hl_vars, fp_vars, vin_vars>>

SpecAN == InitAN /\ [][NextAN]_vars

InitCR ==
    /\ CRInit
    /\ DispatchIdle
    /\ BMIdle
    /\ BSIdle
    /\ PTIdle
    /\ GSIdle
    /\ AZIdle
    /\ QRIdle
    /\ RSSIdle
    /\ BQIdle
    /\ RDIdle
    /\ ANIdle
    /\ MXIdle
    /\ LUIdle
    /\ HLIdle
    /\ FPIdle
    /\ VINIdle

NextCR == CRNext /\ UNCHANGED <<dispatch_vars, bm_vars, bs_vars, pt_vars, gs_vars, az_vars, qr_vars, rss_vars, bq_vars, rd_vars, an_vars, mx_vars, lu_vars, hl_vars, fp_vars, vin_vars>>

SpecCR == InitCR /\ [][NextCR]_vars

InitMX ==
    /\ MXInit
    /\ DispatchIdle
    /\ BMIdle
    /\ BSIdle
    /\ PTIdle
    /\ GSIdle
    /\ AZIdle
    /\ QRIdle
    /\ RSSIdle
    /\ BQIdle
    /\ RDIdle
    /\ ANIdle
    /\ CRIdle
    /\ LUIdle
    /\ HLIdle
    /\ FPIdle
    /\ VINIdle

NextMX == MXNext /\ UNCHANGED <<dispatch_vars, bm_vars, bs_vars, pt_vars, gs_vars, az_vars, qr_vars, rss_vars, bq_vars, rd_vars, an_vars, cr_vars, lu_vars, hl_vars, fp_vars, vin_vars>>

SpecMX == InitMX /\ [][NextMX]_vars

InitLU ==
    /\ LUInit
    /\ DispatchIdle
    /\ BMIdle
    /\ BSIdle
    /\ PTIdle
    /\ GSIdle
    /\ AZIdle
    /\ QRIdle
    /\ RSSIdle
    /\ BQIdle
    /\ RDIdle
    /\ ANIdle
    /\ CRIdle
    /\ MXIdle
    /\ HLIdle
    /\ FPIdle
    /\ VINIdle

NextLU == LUNext /\ UNCHANGED <<dispatch_vars, bm_vars, bs_vars, pt_vars, gs_vars, az_vars, qr_vars, rss_vars, bq_vars, rd_vars, an_vars, cr_vars, mx_vars, hl_vars, fp_vars, vin_vars>>

SpecLU == InitLU /\ [][NextLU]_vars

InitHL ==
    /\ HLInit
    /\ DispatchIdle
    /\ BMIdle
    /\ BSIdle
    /\ PTIdle
    /\ GSIdle
    /\ AZIdle
    /\ QRIdle
    /\ RSSIdle
    /\ BQIdle
    /\ RDIdle
    /\ ANIdle
    /\ CRIdle
    /\ MXIdle
    /\ LUIdle
    /\ FPIdle
    /\ VINIdle

NextHL == HLNext /\ UNCHANGED <<dispatch_vars, bm_vars, bs_vars, pt_vars, gs_vars, az_vars, qr_vars, rss_vars, bq_vars, rd_vars, an_vars, cr_vars, mx_vars, lu_vars, fp_vars, vin_vars>>

SpecHL == InitHL /\ [][NextHL]_vars

InitFP ==
    /\ FPInit
    /\ DispatchIdle
    /\ BMIdle
    /\ BSIdle
    /\ PTIdle
    /\ GSIdle
    /\ AZIdle
    /\ QRIdle
    /\ RSSIdle
    /\ BQIdle
    /\ RDIdle
    /\ ANIdle
    /\ CRIdle
    /\ MXIdle
    /\ LUIdle
    /\ HLIdle
    /\ VINIdle

NextFP == FPNext /\ UNCHANGED <<dispatch_vars, bm_vars, bs_vars, pt_vars, gs_vars, az_vars, qr_vars, rss_vars, bq_vars, rd_vars, an_vars, cr_vars, mx_vars, lu_vars, hl_vars, vin_vars>>

SpecFP == InitFP /\ [][NextFP]_vars

InitVIN ==
    /\ VINInit
    /\ DispatchIdle
    /\ BMIdle
    /\ BSIdle
    /\ PTIdle
    /\ GSIdle
    /\ AZIdle
    /\ QRIdle
    /\ RSSIdle
    /\ BQIdle
    /\ RDIdle
    /\ ANIdle
    /\ CRIdle
    /\ MXIdle
    /\ LUIdle
    /\ HLIdle
    /\ FPIdle

NextVIN == VINNext /\ UNCHANGED <<dispatch_vars, bm_vars, bs_vars, pt_vars, gs_vars, az_vars, qr_vars, rss_vars, bq_vars, rd_vars, an_vars, cr_vars, mx_vars, lu_vars, hl_vars, fp_vars>>

SpecVIN == InitVIN /\ [][NextVIN]_vars

====
